---- MODULE Spec2Model ----
(***************************************************************************)
(* The neighbour cache of net/core/neighbour.c with its ARP instance       *)
(* (net/ipv4/arp.c): the entries of one table, their NUD state machine,    *)
(* timers, resolution queues and reference counts, the hash table with     *)
(* creation, lookup and garbage collection.                                *)
(*                                                                         *)
(* Every step of the model is one critical section of the code: a step     *)
(* begins where the code takes neigh->lock or tbl->lock and ends where it  *)
(* releases it, so every state of the model is a point at which no         *)
(* operation holds a lock.  Operations that drop the entry lock in the     *)
(* middle (the drain loop of neigh_update, neigh_invalidate, the timer     *)
(* handler, neigh_create) are several steps with a program counter.        *)
(*                                                                         *)
(* Times are jiffies.  The modelled devices have addr_len > 0 and live     *)
(* parameter sets; dev_hard_header succeeds.                               *)
(***************************************************************************)
EXTENDS Integers, Sequences, FiniteSets, TLC

\* ---------------------------------------------------------------- bounds
\* Horizons and budgets of the exploration, and the tunables of the table
\* scaled down from the arp_tbl defaults (HZ jiffies per second, the GC
\* thresholds) so that every case is reached within the horizon.
MaxTime == 2
MaxProbeTime == 8
MaxNudTime == 4
MaxProxyTime == 4
MaxProxyFrames == 3
proxy_delay == 3
proxy_qlen == 1
MaxFrames == 2
MaxQueueLen == 2
MaxOps == 3
MaxEntries == 4
MaxRef == 2
MaxTableOps == 2
MaxCreates == 4
MaxLifeCreates == 2
MaxLifeTime == 1
MaxSweepTime == 5
HZ == 2
gc_thresh2 == 1
gc_thresh3 == 2

\* ------------------------------------------------------ program constants
NULL == 0
ucast_probes == 3
mcast_probes == 3
app_probes == 0
init_hash_mask == 1
retrans_time == 1 * HZ
delay_probe_time == 1 * HZ
base_reachable_time == 1 * HZ
reachable_time == 1 * HZ
gc_staletime == 2 * HZ
locktime == 1 * HZ

Ents == 1..MaxEntries
Keys == {1, 2}
Devs == {1, 2}
Procs == {1, 2}
Addrs == {1, 2}
RndSet == {0, 1}

NUD_NONE == "NONE"
NUD_INCOMPLETE == "INCOMPLETE"
NUD_REACHABLE == "REACHABLE"
NUD_STALE == "STALE"
NUD_DELAY == "DELAY"
NUD_PROBE == "PROBE"
NUD_FAILED == "FAILED"
NUD_NOARP == "NOARP"
NUD_PERMANENT == "PERMANENT"
NudStates == {NUD_NONE, NUD_INCOMPLETE, NUD_REACHABLE, NUD_STALE, NUD_DELAY,
              NUD_PROBE, NUD_FAILED, NUD_NOARP, NUD_PERMANENT}
NUD_IN_TIMER == {NUD_INCOMPLETE, NUD_REACHABLE, NUD_DELAY, NUD_PROBE}
NUD_VALID == {NUD_PERMANENT, NUD_NOARP, NUD_REACHABLE, NUD_PROBE, NUD_STALE, NUD_DELAY}
NUD_CONNECTED == {NUD_PERMANENT, NUD_NOARP, NUD_REACHABLE}

F_OVERRIDE == "OVERRIDE"
F_WEAK_OVERRIDE == "WEAK_OVERRIDE"
F_ADMIN == "ADMIN"
UpdateFlagSets == SUBSET {F_OVERRIDE, F_WEAK_OVERRIDE, F_ADMIN}

EPERM == "EPERM"
EINVAL == "EINVAL"
ENOBUFS == "ENOBUFS"
ENETDOWN == "ENETDOWN"
ENOENT == "ENOENT"
ENXIO == "ENXIO"

VARIABLES
    now,            \* jiffies
    nb,             \* the struct neighbour slots of the table's kmem cache
    ext,            \* references held by users outside the table and the timers
    hash_buckets,   \* tbl->hash_buckets: bucket index -> chain, head first
    hash_mask,      \* tbl->hash_mask
    hash_rnd,       \* tbl->hash_rnd
    tbl_entries,    \* tbl->entries
    last_flush,     \* tbl->last_flush
    queue_len,      \* parms->queue_len
    stats,          \* tbl->stats
    xmit,           \* frames handed to the device, with the destination used
    reported,       \* frames handed to ops->error_report
    freed,          \* frames freed without transmission or error report
    solicits,       \* the times of the solicitations emitted (ops->solicit)
    nextf,          \* next frame identity
    nops,           \* calls made so far by the users of the table
    tctx,           \* per entry: the timer handler in progress
    uctx,           \* per entry: the neigh_update in progress
    procs,          \* the threads running neigh_create
    ncreate,        \* neigh_create calls started so far
    proxy_queue,    \* tbl->proxy_queue: requests waiting, head first
    proxy_timer,    \* tbl->proxy_timer
    proxy_redone,   \* the requests handed to tbl->proxy_redo, with the time
    netif_running,  \* per device: netif_running(dev)
    callbacks,      \* the callbacks made so far, with the locks held at the call
    hist            \* the last operation completed and its result

vars == <<now, nb, ext, hash_buckets, hash_mask, hash_rnd, tbl_entries, last_flush,
          queue_len, stats, xmit, reported, freed, solicits, nextf, nops, tctx, uctx,
          procs, ncreate, proxy_queue, proxy_timer, proxy_redone, netif_running, callbacks,
          hist>>

ProxyVars == <<proxy_queue, proxy_timer, proxy_redone, netif_running>>

\* ------------------------------------------------------------ time helpers
time_before(a, b) == a < b
time_after(a, b) == a > b
time_before_eq(a, b) == a <= b

SeqToSet(s) == {s[i] : i \in 1..Len(s)}

\* ------------------------------------------------------------------ entry
FreeEntry ==
    [alive |-> FALSE, key |-> 0, dev |-> 0, nud_state |-> NUD_NONE, ha |-> 0,
     confirmed |-> 0, used |-> 0, updated |-> 0, probes |-> 0, refcnt |-> 0,
     dead |-> FALSE, arp_queue |-> <<>>, output |-> "neigh_blackhole", ops |-> "none",
     timer_pending |-> FALSE, timer_expires |-> 0, hh |-> FALSE, hh_output |-> "none"]

IdleT == [pc |-> "idle", next |-> 0, skb |-> NULL]
IdleU == [pc |-> "idle", skb |-> NULL, caller |-> "none", arg |-> "none", err |-> "ok",
          lladdr |-> NULL, q0 |-> <<>>, snap |-> <<>>, alone |-> TRUE]
IdleTimer == [pending |-> FALSE, expires |-> 0]
IdleP == [pc |-> "idle", key |-> 0, dev |-> 0, entries |-> 0, n |-> NULL]
NoPrev == [op |-> "none", e |-> NULL, key |-> 0, dev |-> 0, arg |-> "none", res |-> "none"]
NoHist == [op |-> "none", e |-> NULL, key |-> 0, dev |-> 0, arg |-> "none", res |-> "none",
           prev |-> NoPrev]

\* ------------------------------------------------- operation tables (arp.c)
\* The output functions of the two ARP operation tables used for devices
\* with a link-layer header: arp_hh_ops when the device caches headers.
OpsTables == {"arp_generic_ops", "arp_hh_ops"}
ops_output(ops) == "neigh_resolve_output"
ops_connected_output(ops) ==
    IF ops = "arp_generic_ops" THEN "neigh_connected_output" ELSE "neigh_resolve_output"
ops_hh_output(ops) == "dev_queue_xmit"

\* dev->header_ops->cache: the devices arp_constructor gives arp_hh_ops.
header_ops_cache(ops) == ops = "arp_hh_ops"

\* ------------------------------------------------ reference count and timer
\* A hold that takes no reference.
neigh_hold_none(n) == n

\* neigh_hold: atomic_inc(&n->refcnt).
neigh_hold(n) == [n EXCEPT !.refcnt = @ + 1]

\* neigh_destroy: refuses an entry that is still linked (dead = 0); otherwise
\* stops the timer, purges the queue and frees the slot.
neigh_destroy(n) ==
    IF ~n.dead THEN [n |-> n, freed |-> {}]
    ELSE [n |-> FreeEntry, freed |-> SeqToSet(n.arp_queue)]

\* A release that destroys as soon as one reference is left.
neigh_release_early(n) ==
    LET m == [n EXCEPT !.refcnt = @ - 1]
    IN  IF m.refcnt <= 1 THEN neigh_destroy(m) ELSE [n |-> m, freed |-> {}]

\* neigh_release: atomic_dec_and_test, neigh_destroy on zero.
neigh_release(n) ==
    LET m == [n EXCEPT !.refcnt = @ - 1]
    IN  IF m.refcnt = 0 THEN neigh_destroy(m) ELSE [n |-> m, freed |-> {}]

\* A timer armed one jiffy later than asked.
neigh_add_timer_late(n, when) ==
    [n EXCEPT !.refcnt = @ + 1, !.timer_pending = TRUE, !.timer_expires = when + 1]

\* neigh_add_timer: takes a reference, then mod_timer (an already pending
\* timer is reported as a bug and re-armed; the reference stays taken).
neigh_add_timer(n, when) ==
    [n EXCEPT !.refcnt = @ + 1, !.timer_pending = TRUE, !.timer_expires = when]

\* neigh_del_timer: only in a timer state, and only a pending timer gives its
\* reference back (the caller holds one of its own, so this is never the last).
neigh_del_timer(n) ==
    IF n.nud_state \in NUD_IN_TIMER /\ n.timer_pending
    THEN [n EXCEPT !.timer_pending = FALSE, !.refcnt = @ - 1]
    ELSE n

\* A neigh_suspect that repoints the entry and forgets its cached header.
neigh_suspect_entry_only(n) == [n EXCEPT !.output = ops_output(n.ops)]

\* neigh_suspect and neigh_connect: the output pointer of the entry and of
\* its cached header follow the state.
neigh_suspect(n) ==
    [n EXCEPT !.output = ops_output(n.ops),
              !.hh_output = IF n.hh THEN ops_output(n.ops) ELSE @]
neigh_connect(n) ==
    [n EXCEPT !.output = ops_connected_output(n.ops),
              !.hh_output = IF n.hh THEN ops_hh_output(n.ops) ELSE @]

\* A probe budget that is the same in every state.
neigh_max_probes_all(n) == ucast_probes + app_probes + mcast_probes

\* A probe budget that counts the unicast probes only.
neigh_max_probes_ucast(n) == ucast_probes

neigh_max_probes(n) ==
    IF n.nud_state = NUD_PROBE THEN ucast_probes
    ELSE ucast_probes + app_probes + mcast_probes

\* ------------------------------------------------------- resolution (USE)
\* __neigh_event_send under neigh->lock.  rc = 1: the frame was taken (queued
\* or freed); rc = 0: the caller may transmit.  qlen is parms->queue_len.
__neigh_event_send(n, skb, t, qlen) ==
    LET s == n.nud_state
        none == [n |-> n, rc |-> 0, freed |-> {}, discards |-> 0]
    IN
    IF s \in NUD_CONNECTED \cup {NUD_DELAY, NUD_PROBE} THEN none
    ELSE IF s \notin {NUD_STALE, NUD_INCOMPLETE} /\ mcast_probes + app_probes = 0
    THEN [n |-> [n EXCEPT !.nud_state = NUD_FAILED, !.updated = t], rc |-> 1,
          freed |-> IF skb = NULL THEN {} ELSE {skb}, discards |-> 0]
    ELSE
        LET n1 == IF s \notin {NUD_STALE, NUD_INCOMPLETE}
                  THEN neigh_add_timer([n EXCEPT !.probes = ucast_probes,
                                                 !.nud_state = NUD_INCOMPLETE,
                                                 !.updated = t], t + 1)
                  ELSE IF s = NUD_STALE
                  THEN neigh_add_timer([n EXCEPT !.nud_state = NUD_DELAY,
                                                 !.updated = t], t + delay_probe_time)
                  ELSE n
            full == Len(n1.arp_queue) >= qlen
            buff == IF full /\ n1.arp_queue # <<>> THEN {Head(n1.arp_queue)} ELSE {}
            rest == IF full /\ n1.arp_queue # <<>> THEN Tail(n1.arp_queue) ELSE n1.arp_queue
        IN
        IF n1.nud_state # NUD_INCOMPLETE THEN [none EXCEPT !.n = n1]
        ELSE IF skb = NULL THEN [n |-> n1, rc |-> 1, freed |-> {}, discards |-> 0]
        ELSE [n |-> [n1 EXCEPT !.arp_queue = Append(rest, skb)], rc |-> 1,
              freed |-> buff, discards |-> IF full THEN 1 ELSE 0]

\* A neigh_event_send for which FAILED is final: the frame is freed.
neigh_event_send_final(n, skb, t, qlen) ==
    LET n0 == [n EXCEPT !.used = t]
    IN  IF n0.nud_state = NUD_FAILED
        THEN [n |-> n0, rc |-> 1, freed |-> {skb}, discards |-> 0]
        ELSE IF n0.nud_state \notin NUD_CONNECTED \cup {NUD_DELAY, NUD_PROBE}
        THEN __neigh_event_send(n0, skb, t, qlen)
        ELSE [n |-> n0, rc |-> 0, freed |-> {}, discards |-> 0]

\* A USE that starts the resolution but lets go of the frame.
neigh_event_send_dropping(n, skb, t, qlen) ==
    LET n0 == [n EXCEPT !.used = t]
        r == __neigh_event_send(n0, NULL, t, qlen)
    IN  IF n0.nud_state \notin NUD_CONNECTED \cup {NUD_DELAY, NUD_PROBE}
        THEN [r EXCEPT !.freed = IF r.rc = 1 THEN {skb} ELSE {}]
        ELSE [n |-> n0, rc |-> 0, freed |-> {}, discards |-> 0]

\* neigh_event_send (neighbour.h): stamps used, takes the slow path unless the
\* state is CONNECTED, DELAY or PROBE.
neigh_event_send(n, skb, t, qlen) ==
    LET n0 == [n EXCEPT !.used = t]
    IN  IF n0.nud_state \notin NUD_CONNECTED \cup {NUD_DELAY, NUD_PROBE}
        THEN __neigh_event_send(n0, skb, t, qlen)
        ELSE [n |-> n0, rc |-> 0, freed |-> {}, discards |-> 0]

\* A resolve path that transmits only when the state needed no change.
neigh_resolve_output_settled(n, skb, t, qlen) ==
    LET r == neigh_event_send(n, skb, t, qlen)
    IN  [n |-> r.n, freed |-> r.freed, discards |-> r.discards,
         xmit |-> IF r.rc = 0 /\ r.n.nud_state = n.nud_state
                  THEN <<<<skb, r.n.ha>>>> ELSE <<>>,
         rc |-> "ok"]

\* neigh_hh_init: the first frame transmitted on a device that caches headers
\* gives the entry its cached header, with the output that fits the state.
neigh_hh_init(n) ==
    IF n.hh THEN n
    ELSE [n EXCEPT !.hh = TRUE,
                   !.hh_output = IF n.nud_state \in NUD_CONNECTED
                                 THEN ops_hh_output(n.ops) ELSE ops_output(n.ops)]

\* neigh_resolve_output: transmits with neigh->ha when neigh_event_send lets it.
neigh_resolve_output(n, skb, t, qlen) ==
    LET r == neigh_event_send(n, skb, t, qlen)
    IN  [n |-> IF r.rc = 0 /\ header_ops_cache(r.n.ops) THEN neigh_hh_init(r.n) ELSE r.n,
         freed |-> r.freed, discards |-> r.discards,
         xmit |-> IF r.rc = 0 THEN <<<<skb, r.n.ha>>>> ELSE <<>>,
         rc |-> "ok"]

\* neigh_connected_output: builds the header from neigh->ha and transmits.
neigh_connected_output(n, skb) ==
    [n |-> n, freed |-> {}, discards |-> 0, xmit |-> <<<<skb, n.ha>>>>, rc |-> "ok"]

\* neigh_blackhole: frees the frame and returns -ENETDOWN.
neigh_blackhole(n, skb) ==
    [n |-> n, freed |-> {skb}, discards |-> 0, xmit |-> <<>>, rc |-> ENETDOWN]

\* dev_queue_xmit behind a cached header or as the output of arp_direct_ops: the
\* frame goes to the device with the address at hand.
dev_queue_xmit(n, skb) ==
    [n |-> n, freed |-> {}, discards |-> 0, xmit |-> <<<<skb, n.ha>>>>, rc |-> "ok"]

\* The call through the neigh->output pointer.
neigh_output(n, skb, t, qlen) ==
    IF n.output = "neigh_resolve_output" THEN neigh_resolve_output(n, skb, t, qlen)
    ELSE IF n.output = "neigh_connected_output" THEN neigh_connected_output(n, skb)
    ELSE IF n.output = "dev_queue_xmit" THEN dev_queue_xmit(n, skb)
    ELSE neigh_blackhole(n, skb)

\* neigh_hh_output (neighbour.h): the cached header is copied in front of the
\* frame and the call goes through hh->hh_output.
hh_output(n, skb, t, qlen) ==
    IF n.hh_output = "dev_queue_xmit" THEN dev_queue_xmit(n, skb)
    ELSE IF n.hh_output = "neigh_resolve_output" THEN neigh_resolve_output(n, skb, t, qlen)
    ELSE neigh_blackhole(n, skb)

\* A handler that ages a REACHABLE entry by its last use alone.
timer_transition_unconfirmed(n, t) ==
    LET state == n.nud_state
        n1 == IF state = NUD_REACHABLE
              THEN IF time_before_eq(t, n.used + delay_probe_time)
                   THEN neigh_suspect([n EXCEPT !.nud_state = NUD_DELAY, !.updated = t])
                   ELSE neigh_suspect([n EXCEPT !.nud_state = NUD_STALE, !.updated = t])
              ELSE IF state = NUD_DELAY
              THEN IF time_before_eq(t, n.confirmed + delay_probe_time)
                   THEN neigh_connect([n EXCEPT !.nud_state = NUD_REACHABLE, !.updated = t])
                   ELSE [n EXCEPT !.nud_state = NUD_PROBE, !.updated = t, !.probes = 0]
              ELSE n
        next == IF state = NUD_REACHABLE
                THEN IF time_before_eq(t, n.used + delay_probe_time)
                     THEN t + delay_probe_time
                     ELSE t + HZ
                ELSE IF state = NUD_DELAY
                THEN IF time_before_eq(t, n.confirmed + delay_probe_time)
                     THEN n.confirmed + reachable_time
                     ELSE t + retrans_time
                ELSE t + retrans_time
        failed == n1.nud_state \in {NUD_INCOMPLETE, NUD_PROBE}
                  /\ n1.probes >= neigh_max_probes(n1)
    IN  [n |-> IF failed THEN [n1 EXCEPT !.nud_state = NUD_FAILED] ELSE n1,
         next |-> next, failed |-> failed]

\* A handler that moves a REACHABLE entry to DELAY without neigh_suspect.
timer_transition_fast_delay(n, t) ==
    LET state == n.nud_state
        n1 == IF state = NUD_REACHABLE
              THEN IF time_before_eq(t, n.confirmed + reachable_time) THEN n
                   ELSE IF time_before_eq(t, n.used + delay_probe_time)
                   THEN [n EXCEPT !.nud_state = NUD_DELAY, !.updated = t]
                   ELSE neigh_suspect([n EXCEPT !.nud_state = NUD_STALE, !.updated = t])
              ELSE IF state = NUD_DELAY
              THEN IF time_before_eq(t, n.confirmed + delay_probe_time)
                   THEN neigh_connect([n EXCEPT !.nud_state = NUD_REACHABLE, !.updated = t])
                   ELSE [n EXCEPT !.nud_state = NUD_PROBE, !.updated = t, !.probes = 0]
              ELSE n
        next == IF state = NUD_REACHABLE
                THEN IF time_before_eq(t, n.confirmed + reachable_time)
                     THEN n.confirmed + reachable_time
                     ELSE IF time_before_eq(t, n.used + delay_probe_time)
                     THEN t + delay_probe_time
                     ELSE t + HZ
                ELSE IF state = NUD_DELAY
                THEN IF time_before_eq(t, n.confirmed + delay_probe_time)
                     THEN n.confirmed + reachable_time
                     ELSE t + retrans_time
                ELSE t + retrans_time
        failed == n1.nud_state \in {NUD_INCOMPLETE, NUD_PROBE}
                  /\ n1.probes >= neigh_max_probes(n1)
    IN  [n |-> IF failed THEN [n1 EXCEPT !.nud_state = NUD_FAILED] ELSE n1,
         next |-> next, failed |-> failed]

\* A handler that enters PROBE with the probe counter left as it was.
timer_transition_keep_probes(n, t) ==
    LET state == n.nud_state
        n1 == IF state = NUD_REACHABLE
              THEN IF time_before_eq(t, n.confirmed + reachable_time) THEN n
                   ELSE IF time_before_eq(t, n.used + delay_probe_time)
                   THEN neigh_suspect([n EXCEPT !.nud_state = NUD_DELAY, !.updated = t])
                   ELSE neigh_suspect([n EXCEPT !.nud_state = NUD_STALE, !.updated = t])
              ELSE IF state = NUD_DELAY
              THEN IF time_before_eq(t, n.confirmed + delay_probe_time)
                   THEN neigh_connect([n EXCEPT !.nud_state = NUD_REACHABLE, !.updated = t])
                   ELSE [n EXCEPT !.nud_state = NUD_PROBE, !.updated = t]
              ELSE n
        next == IF state = NUD_REACHABLE
                THEN IF time_before_eq(t, n.confirmed + reachable_time)
                     THEN n.confirmed + reachable_time
                     ELSE IF time_before_eq(t, n.used + delay_probe_time)
                     THEN t + delay_probe_time
                     ELSE t + HZ
                ELSE IF state = NUD_DELAY
                THEN IF time_before_eq(t, n.confirmed + delay_probe_time)
                     THEN n.confirmed + reachable_time
                     ELSE t + retrans_time
                ELSE t + retrans_time
        failed == n1.nud_state \in {NUD_INCOMPLETE, NUD_PROBE}
                  /\ n1.probes >= neigh_max_probes(n1)
    IN  [n |-> IF failed THEN [n1 EXCEPT !.nud_state = NUD_FAILED] ELSE n1,
         next |-> next, failed |-> failed]

\* ------------------------------------------------------------ timer handler
\* neigh_timer_handler from write_lock to the probe-budget test: the state
\* transition, the next expiry, whether the entry has just failed.
timer_transition(n, t) ==
    LET state == n.nud_state
        n1 == IF state = NUD_REACHABLE
              THEN IF time_before_eq(t, n.confirmed + reachable_time) THEN n
                   ELSE IF time_before_eq(t, n.used + delay_probe_time)
                   THEN neigh_suspect([n EXCEPT !.nud_state = NUD_DELAY, !.updated = t])
                   ELSE neigh_suspect([n EXCEPT !.nud_state = NUD_STALE, !.updated = t])
              ELSE IF state = NUD_DELAY
              THEN IF time_before_eq(t, n.confirmed + delay_probe_time)
                   THEN neigh_connect([n EXCEPT !.nud_state = NUD_REACHABLE, !.updated = t])
                   ELSE [n EXCEPT !.nud_state = NUD_PROBE, !.updated = t, !.probes = 0]
              ELSE n
        next == IF state = NUD_REACHABLE
                THEN IF time_before_eq(t, n.confirmed + reachable_time)
                     THEN n.confirmed + reachable_time
                     ELSE IF time_before_eq(t, n.used + delay_probe_time)
                     THEN t + delay_probe_time
                     ELSE t + HZ
                ELSE IF state = NUD_DELAY
                THEN IF time_before_eq(t, n.confirmed + delay_probe_time)
                     THEN n.confirmed + reachable_time
                     ELSE t + retrans_time
                ELSE t + retrans_time
        failed == n1.nud_state \in {NUD_INCOMPLETE, NUD_PROBE}
                  /\ n1.probes >= neigh_max_probes(n1)
    IN  [n |-> IF failed THEN [n1 EXCEPT !.nud_state = NUD_FAILED] ELSE n1,
         next |-> next, failed |-> failed]

\* A re-arm that takes the next expiry as computed, however near it is.
timer_rearm_exact(n, next, t) ==
    LET n1 == IF n.nud_state \in NUD_IN_TIMER
              THEN [n EXCEPT !.timer_pending = TRUE, !.timer_expires = next,
                             !.refcnt = IF n.timer_pending THEN @ ELSE @ + 1]
              ELSE n
        sol == n1.nud_state \in {NUD_INCOMPLETE, NUD_PROBE}
        n2 == IF sol THEN [n1 EXCEPT !.probes = @ + 1] ELSE n1
        r == neigh_release(n2)
    IN  [n |-> r.n, freed |-> r.freed, solicit |-> IF sol THEN 1 ELSE 0]

\* The rest of neigh_timer_handler, entered with the lock held: re-arm the
\* timer while the state is a timer state, emit one solicitation and count it
\* in INCOMPLETE and PROBE, drop the reference the expired timer held.
timer_rearm(n, next, t) ==
    LET nx == IF time_before(next, t + HZ \div 2) THEN t + HZ \div 2 ELSE next
        n1 == IF n.nud_state \in NUD_IN_TIMER
              THEN [n EXCEPT !.timer_pending = TRUE, !.timer_expires = nx,
                             !.refcnt = IF n.timer_pending THEN @ ELSE @ + 1]
              ELSE n
        sol == n1.nud_state \in {NUD_INCOMPLETE, NUD_PROBE}
        n2 == IF sol THEN [n1 EXCEPT !.probes = @ + 1] ELSE n1
        r == neigh_release(n2)
    IN  [n |-> r.n, freed |-> r.freed, solicit |-> IF sol THEN 1 ELSE 0]

\* ---------------------------------------------------------- queue draining
\* One turn of the loop of neigh_invalidate, taken with the lock held:
\* while the state is FAILED a frame is dequeued for error_report; otherwise
\* the queue is purged and the loop is over.
invalidate_turn(n) ==
    IF n.nud_state = NUD_FAILED /\ n.arp_queue # <<>>
    THEN [n |-> [n EXCEPT !.arp_queue = Tail(@)], skb |-> Head(n.arp_queue), freed |-> {}]
    ELSE [n |-> [n EXCEPT !.arp_queue = <<>>], skb |-> NULL, freed |-> SeqToSet(n.arp_queue)]

\* A drain that takes the frame queued last.
drain_turn_lifo(n) ==
    IF n.nud_state \in NUD_VALID /\ n.arp_queue # <<>>
    THEN [n |-> [n EXCEPT !.arp_queue = SubSeq(@, 1, Len(@) - 1)],
          skb |-> n.arp_queue[Len(n.arp_queue)], freed |-> {}]
    ELSE [n |-> [n EXCEPT !.arp_queue = <<>>], skb |-> NULL, freed |-> SeqToSet(n.arp_queue)]

\* One turn of the loop at the end of neigh_update: while the state is VALID a
\* frame is dequeued for n1->output; otherwise the queue is purged.
drain_turn(n) ==
    IF n.nud_state \in NUD_VALID /\ n.arp_queue # <<>>
    THEN [n |-> [n EXCEPT !.arp_queue = Tail(@)], skb |-> Head(n.arp_queue), freed |-> {}]
    ELSE [n |-> [n EXCEPT !.arp_queue = <<>>], skb |-> NULL, freed |-> SeqToSet(n.arp_queue)]

\* -------------------------------------------------------------- neigh_update
\* A guard that refuses nobody.
neigh_update_refused_never(old, flags) == FALSE

\* A guard that protects PERMANENT entries only.
neigh_update_refused_permanent(old, flags) ==
    F_ADMIN \notin flags /\ old = NUD_PERMANENT

\* The first test of neigh_update: only an administrative update may touch an
\* entry in NOARP or PERMANENT.
neigh_update_refused(old, flags) ==
    F_ADMIN \notin flags /\ old \in {NUD_NOARP, NUD_PERMANENT}

\* neigh_update from write_lock_bh to the first point where it either leaves
\* (phase "out") or enters a loop that releases the lock: the drain of the
\* queue through the output pointer ("drain") or neigh_invalidate
\* ("invalidate").  lladdr = NULL is the absent address; sameha stands for the
\* pointer comparison lladdr == neigh->ha after the address has been settled.
neigh_update_locked(n, lladdr, new, flags, t) ==
    LET old == n.nud_state
        out(m, err) == [n |-> m, err |-> err, phase |-> "out"]
    IN
    IF neigh_update_refused(old, flags) THEN out(n, EPERM)
    ELSE IF new \notin NUD_VALID
    THEN LET n1 == neigh_del_timer(n)
             n2 == IF old \in NUD_CONNECTED THEN neigh_suspect(n1) ELSE n1
             n3 == [n2 EXCEPT !.nud_state = new]
         IN  IF old \in {NUD_INCOMPLETE, NUD_PROBE} /\ new = NUD_FAILED
             THEN [n |-> n3, err |-> "ok", phase |-> "invalidate"]
             ELSE out(n3, "ok")
    ELSE IF lladdr = NULL /\ old \notin NUD_VALID THEN out(n, EINVAL)
    ELSE
        LET sameha0 == lladdr = NULL \/ (old \in NUD_VALID /\ lladdr = n.ha)
            n1 == [n EXCEPT !.confirmed = IF new \in NUD_CONNECTED THEN t ELSE @,
                            !.updated = t]
            refuse == old \in NUD_VALID /\ ~sameha0 /\ F_OVERRIDE \notin flags
            weak == refuse /\ F_WEAK_OVERRIDE \in flags /\ old \in NUD_CONNECTED
            sameha == sameha0 \/ weak
            new1 == IF weak THEN NUD_STALE
                    ELSE IF old \in NUD_VALID /\ ~refuse /\ sameha0 /\ new = NUD_STALE
                            /\ (F_WEAK_OVERRIDE \in flags \/ old \in NUD_CONNECTED)
                    THEN old
                    ELSE new
            n2 == IF new1 # old
                  THEN LET d == neigh_del_timer(n1)
                           a == IF new1 \in NUD_IN_TIMER
                                THEN neigh_add_timer(d, t + (IF new1 = NUD_REACHABLE
                                                             THEN reachable_time ELSE 0))
                                ELSE d
                       IN  [a EXCEPT !.nud_state = new1]
                  ELSE n1
            n3 == IF ~sameha
                  THEN [n2 EXCEPT !.ha = lladdr,
                                  !.confirmed = IF new1 \notin NUD_CONNECTED
                                                THEN t - 2 * base_reachable_time ELSE @]
                  ELSE n2
            n4 == IF new1 \in NUD_CONNECTED THEN neigh_connect(n3) ELSE neigh_suspect(n3)
        IN
        IF refuse /\ ~weak THEN out(n1, "ok")
        ELSE IF new1 = old THEN out(n3, "ok")
        ELSE IF old \notin NUD_VALID THEN [n |-> n4, err |-> "ok", phase |-> "drain"]
        ELSE out(n4, "ok")

\* ------------------------------------------------------------ the hash table
\* tbl->hash (arp_hash: jhash_2words of the key, the interface index and the
\* table's random seed), here a small mixing function of the same three
\* inputs; the bucket is the hash masked with hash_mask.
arp_hash(key, dev, rnd) == key * 7 + dev * 13 + rnd * (key + 2 * dev) + ((key * dev) % 3)
Bucket(key, dev, rnd, mask) == arp_hash(key, dev, rnd) % (mask + 1)

\* A chain scan that matches nothing.
FindNothing(chain, m, key, dev) == NULL

\* The scan of one chain for the first entry with the device and the key.
RECURSIVE FindInChain(_, _, _, _)
FindInChain(chain, m, key, dev) ==
    IF chain = <<>> THEN NULL
    ELSE IF m[Head(chain)].dev = dev /\ m[Head(chain)].key = key THEN Head(chain)
    ELSE FindInChain(Tail(chain), m, key, dev)

\* A lookup that never finds an entry.
neigh_lookup_miss(key, dev) == NULL

\* The scan of neigh_lookup: the bucket of (pkey, dev), first match.
neigh_lookup_find(key, dev) ==
    FindInChain(hash_buckets[Bucket(key, dev, hash_rnd, hash_mask)], nb, key, dev)

\* ------------------------------------------------------------ state updates
Destroyed(m) == Cardinality({e \in Ents : nb[e].alive /\ ~m[e].alive})

\* Stores entry e and settles tbl->entries for a slot neigh_destroy has freed.
Store(e, m) ==
    /\ nb' = [nb EXCEPT ![e] = m]
    /\ tbl_entries' = tbl_entries - (IF nb[e].alive /\ ~m.alive THEN 1 ELSE 0)

\* One more call by a user of the table (the protocol, a sender, the
\* administrator), within the budget of the exploration.
Call == nops < MaxOps /\ nops' = nops + 1

\* One more callback: which one, whether tbl->lock is held at the call, and
\* whether the lock of the entry is.
Called(cb, tbl_lock, neigh_lock) ==
    callbacks \cup {[cb |-> cb, tbl_lock |-> tbl_lock, neigh_lock |-> neigh_lock]}

\* neigh_cleanup_and_release as a callback: the RTM_DELNEIGH notification (the
\* ARP parameters have no neigh_cleanup).  called: at least one entry went
\* through it; the callers hold tbl->lock and have released the entry's lock.
neigh_cleanup_and_release(called) ==
    IF called THEN Called("__neigh_notify", TRUE, FALSE) ELSE callbacks

\* The record of a verb that has just returned: its arguments, the entry it
\* worked on or found, its result, and the verb that returned just before it
\* if no other step came in between.
Did(op, e, key, dev, arg, res) ==
    [op |-> op, e |-> e, key |-> key, dev |-> dev, arg |-> arg, res |-> res,
     prev |-> [op |-> hist.op, e |-> hist.e, key |-> hist.key, dev |-> hist.dev,
               arg |-> hist.arg, res |-> hist.res]]

Held(e) == nb[e].alive /\ ext[e] > 0
Linked(e) == nb[e].alive /\ ~nb[e].dead
TableUnchanged ==
    UNCHANGED <<hash_buckets, hash_mask, hash_rnd, last_flush, procs, ncreate, ProxyVars>>

\* ---------------------------------------------------------------- USE
\* A user holding a reference sends one frame through neigh->output.
Output(e) ==
    /\ Held(e)
    /\ Call
    /\ nextf <= MaxFrames
    /\ \E r \in {neigh_output(nb[e], nextf, now, queue_len)} :
           /\ Store(e, r.n)
           /\ xmit' = xmit \o r.xmit
           /\ freed' = freed \cup r.freed
           /\ stats' = [stats EXCEPT !.unres_discards = @ + r.discards]
           /\ hist' = IF r.rc = "ok" THEN NoHist
                      ELSE Did("output", e, nb[e].key, nb[e].dev, "none", r.rc)
    /\ nextf' = nextf + 1
    /\ TableUnchanged
    /\ UNCHANGED <<now, ext, queue_len, callbacks, reported, solicits, tctx, uctx>>

\* A user holding a reference, whose route has the cached header of the
\* entry, sends one frame through neigh_hh_output.
neigh_hh_output(e) ==
    /\ Held(e)
    /\ nb[e].hh
    /\ Call
    /\ nextf <= MaxFrames
    /\ \E r \in {hh_output(nb[e], nextf, now, queue_len)} :
           /\ Store(e, r.n)
           /\ xmit' = xmit \o r.xmit
           /\ freed' = freed \cup r.freed
           /\ stats' = [stats EXCEPT !.unres_discards = @ + r.discards]
           /\ hist' = Did("neigh_hh_output", e, nb[e].key, nb[e].dev, "none", r.rc)
    /\ nextf' = nextf + 1
    /\ TableUnchanged
    /\ UNCHANGED <<now, ext, queue_len, callbacks, reported, solicits, tctx, uctx>>

\* A confirmation that would also move the entry to REACHABLE.
neigh_confirm_reachable(n, t) == [n EXCEPT !.confirmed = t, !.nud_state = NUD_REACHABLE]

\* neigh_confirm (neighbour.h): a user holding a reference reports progress.
neigh_confirm(n, t) == [n EXCEPT !.confirmed = t]

Confirm(e) ==
    /\ Held(e)
    /\ Call
    /\ Store(e, neigh_confirm(nb[e], now))
    /\ hist' = Did("neigh_confirm", e, nb[e].key, nb[e].dev, "none", "ok")
    /\ TableUnchanged
    /\ UNCHANGED <<now, ext, queue_len, callbacks, stats, xmit, reported, freed, solicits, nextf, tctx, uctx>>

\* ---------------------------------------------------------------- timer
\* The timer wheel takes a due timer: it is no longer pending and its
\* handler is about to ask for the entry lock.
TimerExpire(e) ==
    /\ nb[e].alive /\ nb[e].timer_pending
    /\ now >= nb[e].timer_expires
    /\ tctx[e].pc = "idle"
    /\ Store(e, [nb[e] EXCEPT !.timer_pending = FALSE])
    /\ tctx' = [tctx EXCEPT ![e] = [IdleT EXCEPT !.pc = "fired"]]
    /\ hist' = NoHist
    /\ TableUnchanged
    /\ UNCHANGED <<now, ext, queue_len, callbacks, stats, xmit, reported, freed, solicits, nextf,
                   nops, uctx>>

\* The tail of the handler once neigh_invalidate (if any) is over.
TimerFinish(e, n, next, fr) ==
    LET r == timer_rearm(n, next, now)
    IN  /\ Store(e, r.n)
        /\ freed' = freed \cup fr \cup r.freed
        /\ solicits' = IF r.solicit = 1 THEN Append(solicits, now) ELSE solicits
        /\ tctx' = [tctx EXCEPT ![e] = IdleT]

\* neigh_timer_handler from taking the lock to its first release: either the
\* whole handler, or up to the first error_report of neigh_invalidate.
TimerRun(e) ==
    IF nb[e].nud_state \notin NUD_IN_TIMER
    THEN /\ LET r == neigh_release(nb[e])
            IN  Store(e, r.n) /\ freed' = freed \cup r.freed
         /\ tctx' = [tctx EXCEPT ![e] = IdleT]
         /\ UNCHANGED <<stats, solicits, reported>>
    ELSE LET tr == timer_transition(nb[e], now)
             iv == invalidate_turn([tr.n EXCEPT !.updated = now])
         IN  /\ stats' = [stats EXCEPT !.res_failed = @ + (IF tr.failed THEN 1 ELSE 0)]
             /\ UNCHANGED reported
             /\ IF ~tr.failed THEN TimerFinish(e, tr.n, tr.next, {})
                ELSE IF iv.skb = NULL THEN TimerFinish(e, iv.n, tr.next, iv.freed)
                ELSE /\ Store(e, iv.n)
                     /\ tctx' = [tctx EXCEPT ![e] =
                            [pc |-> "report", next |-> tr.next, skb |-> iv.skb]]
                     /\ UNCHANGED <<freed, solicits>>

\* neigh_invalidate inside the handler: error_report of the frame in hand
\* with the lock released, then the lock again and the next turn of the loop.
TimerReport(e) ==
    /\ reported' = Append(reported, tctx[e].skb)
    /\ UNCHANGED stats
    /\ LET iv == invalidate_turn(nb[e])
       IN  IF iv.skb # NULL
           THEN /\ Store(e, iv.n)
                /\ tctx' = [tctx EXCEPT ![e].skb = iv.skb]
                /\ UNCHANGED <<freed, solicits>>
           ELSE TimerFinish(e, iv.n, tctx[e].next, iv.freed)

\* The next step of the handler of an expired timer.
neigh_timer_handler(e) ==
    /\ tctx[e].pc # "idle"
    /\ IF tctx[e].pc = "fired" THEN TimerRun(e) ELSE TimerReport(e)
    /\ callbacks' = callbacks
          \cup (IF reported' # reported THEN Called("error_report", FALSE, FALSE) ELSE {})
          \cup (IF solicits' # solicits THEN Called("solicit", FALSE, FALSE) ELSE {})
    /\ hist' = NoHist
    /\ TableUnchanged
    /\ UNCHANGED <<now, ext, queue_len, xmit, nextf, nops, uctx>>

\* -------------------------------------------------------- neigh_update steps
\* What the drain observes of the entry between two of its own steps.
Snap(n) == <<n.nud_state, n.ha, n.output, n.arp_queue>>

\* The return of neigh_update to a caller that found the entry by lookup:
\* unlock, then the caller's neigh_release.
UpdateReturn(e, n, fr, caller, arg, err) ==
    LET r == neigh_release(n)
    IN  /\ Store(e, r.n)
        /\ freed' = freed \cup fr \cup r.freed
        /\ hist' = Did(caller, e, nb[e].key, nb[e].dev, arg, err)

\* neigh_update on an entry the caller has a pointer to, up to the first
\* release of the entry lock.  An update that has to release the lock in a
\* loop waits while another update of the same entry is inside such a loop.
neigh_update(e, lladdr, new, flags, caller) ==
    /\ Call
    /\ \E u \in {neigh_update_locked(neigh_hold(nb[e]), lladdr, new, flags, now)} :
       \E n0 \in {IF u.phase = "invalidate" THEN [u.n EXCEPT !.updated = now] ELSE u.n} :
       \E turn \in {IF u.phase = "drain" THEN drain_turn(n0)
                     ELSE IF u.phase = "invalidate" THEN invalidate_turn(n0)
                     ELSE [n |-> n0, skb |-> NULL, freed |-> {}]} :
           /\ stats' = [stats EXCEPT !.res_failed =
                            @ + (IF u.phase = "invalidate" THEN 1 ELSE 0)]
           /\ IF turn.skb = NULL
              THEN /\ UpdateReturn(e, turn.n, turn.freed, caller, new, u.err)
                   /\ UNCHANGED uctx
              ELSE /\ uctx[e].pc = "idle"
                   /\ Store(e, turn.n)
                   /\ uctx' = [uctx EXCEPT ![e] =
                          [pc |-> IF u.phase = "drain" THEN "output" ELSE "report",
                           skb |-> turn.skb, caller |-> caller, arg |-> new,
                           err |-> u.err, lladdr |-> n0.ha, q0 |-> n0.arp_queue,
                           snap |-> Snap(turn.n), alone |-> TRUE]]
                   /\ hist' = NoHist
                   /\ UNCHANGED freed
    /\ TableUnchanged
    /\ UNCHANGED <<now, ext, queue_len, callbacks, xmit, reported, solicits, nextf, tctx>>

\* lookup + neigh_update: the entry is one the table links.
UpdateStart(e, lladdr, new, flags, caller) ==
    Linked(e) /\ neigh_update(e, lladdr, new, flags, caller)

\* The drain with the lock released: n1->output(skb).
UpdateOutput(e) ==
    /\ uctx[e].pc = "output"
    /\ LET r == neigh_output(nb[e], uctx[e].skb, now, queue_len)
       IN  /\ Store(e, r.n)
           /\ xmit' = xmit \o r.xmit
           /\ freed' = freed \cup r.freed
           /\ stats' = [stats EXCEPT !.unres_discards = @ + r.discards]
           /\ uctx' = [uctx EXCEPT ![e].pc = "relock", ![e].snap = Snap(r.n),
                                   ![e].alone = @ /\ Snap(nb[e]) = uctx[e].snap]
    /\ callbacks' = Called("output", FALSE, FALSE)
    /\ hist' = NoHist
    /\ TableUnchanged
    /\ UNCHANGED <<now, ext, queue_len, reported, solicits, nextf, nops, tctx>>

\* The drain takes the lock again: the next turn of the loop, or the purge
\* and the return.
UpdateRelock(e) ==
    /\ uctx[e].pc = "relock"
    /\ LET d == drain_turn(nb[e])
       IN  IF d.skb # NULL
           THEN /\ Store(e, d.n)
                /\ uctx' = [uctx EXCEPT ![e].pc = "output", ![e].skb = d.skb,
                                        ![e].snap = Snap(d.n),
                                        ![e].alone = @ /\ Snap(nb[e]) = uctx[e].snap]
                /\ hist' = NoHist
                /\ UNCHANGED freed
           ELSE /\ UpdateReturn(e, d.n, d.freed, uctx[e].caller, uctx[e].arg, uctx[e].err)
                /\ uctx' = [uctx EXCEPT ![e] = IdleU]
    /\ TableUnchanged
    /\ UNCHANGED <<now, ext, queue_len, callbacks, stats, xmit, reported, solicits, nextf, nops, tctx>>

\* neigh_invalidate inside neigh_update: error_report of the frame in hand
\* with the lock released, then the lock again and the next turn of the loop.
UpdateReport(e) ==
    /\ uctx[e].pc = "report"
    /\ reported' = Append(reported, uctx[e].skb)
    /\ LET iv == invalidate_turn(nb[e])
       IN  IF iv.skb # NULL
           THEN /\ Store(e, iv.n)
                /\ uctx' = [uctx EXCEPT ![e].skb = iv.skb]
                /\ hist' = NoHist
                /\ UNCHANGED freed
           ELSE /\ UpdateReturn(e, iv.n, iv.freed, uctx[e].caller, uctx[e].arg, uctx[e].err)
                /\ uctx' = [uctx EXCEPT ![e] = IdleU]
    /\ callbacks' = Called("error_report", FALSE, FALSE)
    /\ TableUnchanged
    /\ UNCHANGED <<now, ext, queue_len, stats, xmit, solicits, nextf, nops, tctx>>

\* neigh_update as the protocol and the administrator call it, on an entry
\* found by lookup: any address, any target state, any flags.
Update(e) ==
    \E lladdr \in {NULL} \cup Addrs, new \in NudStates, flags \in UpdateFlagSets :
        UpdateStart(e, lladdr, new, flags, "neigh_update")

\* ------------------------------------------------------------- delete verbs
DeleteFlags == {F_OVERRIDE, F_ADMIN}

\* neigh_delete (netlink RTM_DELNEIGH): lookup, neigh_update to NUD_FAILED with
\* OVERRIDE|ADMIN, release.
neigh_delete(key, dev) ==
    \E e \in {NULL} \cup Ents :
        /\ e = neigh_lookup_find(key, dev)
        /\ IF e = NULL
           THEN /\ Call
                /\ hist' = Did("neigh_delete", NULL, key, dev, NUD_FAILED, ENOENT)
                /\ UNCHANGED <<now, nb, ext, hash_buckets, hash_mask, hash_rnd, tbl_entries,
                               last_flush, queue_len, callbacks, stats, xmit, reported, freed, solicits,
                               nextf, tctx, uctx, procs, ncreate, ProxyVars>>
           ELSE UpdateStart(e, NULL, NUD_FAILED, DeleteFlags, "neigh_delete")

\* arp_req_delete (SIOCDARP): the same, but only for an entry whose state has
\* a bit other than NUD_NOARP; otherwise -ENXIO.
arp_req_delete(key, dev) ==
    \E e \in {NULL} \cup Ents :
        /\ e = neigh_lookup_find(key, dev)
        /\ IF e = NULL \/ nb[e].nud_state \in {NUD_NONE, NUD_NOARP}
           THEN /\ Call
                /\ hist' = Did("arp_req_delete", e, key, dev, NUD_FAILED, ENXIO)
                /\ UNCHANGED <<now, nb, ext, hash_buckets, hash_mask, hash_rnd, tbl_entries,
                               last_flush, queue_len, callbacks, stats, xmit, reported, freed, solicits,
                               nextf, tctx, uctx, procs, ncreate, ProxyVars>>
           ELSE UpdateStart(e, NULL, NUD_FAILED, DeleteFlags, "arp_req_delete")

\* ------------------------------------------------------ lookup and release
\* neigh_lookup: the entry found gets one more reference, held by the caller.
neigh_lookup(key, dev) ==
    \E e \in {NULL} \cup Ents :
        /\ e = neigh_lookup_find(key, dev)
        /\ /\ Call
           /\ e # NULL => ext[e] < MaxRef
           /\ nb' = IF e = NULL THEN nb ELSE [nb EXCEPT ![e] = neigh_hold(@)]
           /\ ext' = IF e = NULL THEN ext ELSE [ext EXCEPT ![e] = @ + 1]
           /\ hist' = Did("neigh_lookup", e, key, dev, "none", "ok")
           /\ UNCHANGED <<now, hash_buckets, hash_mask, hash_rnd, tbl_entries, last_flush,
                          queue_len, callbacks, stats, xmit, reported, freed, solicits, nextf, tctx,
                          uctx, procs, ncreate, ProxyVars>>

\* A user gives a reference back (neigh_release).
Release(e) ==
    /\ Held(e)
    /\ Call
    /\ LET r == neigh_release(nb[e])
       IN  Store(e, r.n) /\ freed' = freed \cup r.freed
    /\ ext' = [ext EXCEPT ![e] = @ - 1]
    /\ hist' = NoHist
    /\ TableUnchanged
    /\ UNCHANGED <<now, queue_len, callbacks, stats, xmit, reported, solicits, nextf, tctx, uctx>>

\* ------------------------------------------------------------- periodic GC
\* The sweep of one bucket chain by neigh_periodic_work.
RECURSIVE periodic_chain(_, _, _)
periodic_chain(chain, m, t) ==
    IF chain = <<>> THEN [chain |-> <<>>, nb |-> m, freed |-> {}]
    ELSE
        LET e == Head(chain)
            n == m[e]
            rest == periodic_chain(Tail(chain), m, t)
            n1 == IF time_before(n.used, n.confirmed) THEN [n EXCEPT !.used = n.confirmed]
                  ELSE n
            r == neigh_release([n1 EXCEPT !.dead = TRUE])
        IN
        IF n.nud_state \in {NUD_PERMANENT} \cup NUD_IN_TIMER
        THEN [rest EXCEPT !.chain = <<e>> \o @]
        ELSE IF n1.refcnt = 1
                /\ (n.nud_state = NUD_FAILED \/ time_after(t, n1.used + gc_staletime))
        THEN [rest EXCEPT !.nb = [@ EXCEPT ![e] = r.n], !.freed = @ \cup r.freed]
        ELSE [rest EXCEPT !.chain = <<e>> \o @, !.nb = [@ EXCEPT ![e] = n1]]

\* neigh_periodic_work on bucket i, between two releases of the table lock.
neigh_periodic_work(i) ==
    /\ i \in DOMAIN hash_buckets
    /\ hash_buckets[i] # <<>>
    /\ LET g == periodic_chain(hash_buckets[i], nb, now)
       IN  /\ nb' = g.nb
           /\ tbl_entries' = tbl_entries - Destroyed(g.nb)
           /\ hash_buckets' = [hash_buckets EXCEPT ![i] = g.chain]
           /\ freed' = freed \cup g.freed
           /\ callbacks' = neigh_cleanup_and_release(g.chain # hash_buckets[i])
    /\ hist' = NoHist
    /\ UNCHANGED <<now, ext, hash_mask, hash_rnd, last_flush, queue_len, stats, xmit,
                   reported, solicits, nextf, nops, tctx, uctx, procs, ncreate, ProxyVars>>

\* ------------------------------------------------------------------- time
\* One jiffy passes.  A due timer runs before the next jiffy, and so does a
\* handler that has started.
TimersQuiet ==
    /\ \A e \in Ents : /\ tctx[e].pc = "idle"
                       /\ ~(nb[e].alive /\ nb[e].timer_pending /\ nb[e].timer_expires <= now)
    /\ ~(proxy_timer.pending /\ proxy_timer.expires <= now)

Elapse(horizon) ==
    /\ now < horizon
    /\ TimersQuiet
    /\ now' = now + 1
    /\ hist' = NoHist
    /\ UNCHANGED <<nb, ext, hash_buckets, hash_mask, hash_rnd, tbl_entries, last_flush,
                   queue_len, callbacks, stats, xmit, reported, freed, solicits, nextf, nops, tctx,
                   uctx, procs, ncreate, ProxyVars>>

Tick == Elapse(MaxTime)

\* ------------------------------------------------------------------ creation
\* neigh_alloc: a zeroed entry in NUD_NONE with updated = used = now, the
\* blackhole output, one reference and dead = 1.
neigh_alloc_entry(t) ==
    [FreeEntry EXCEPT !.alive = TRUE, !.updated = t, !.used = t, !.refcnt = 1,
                      !.dead = TRUE]

\* arp_constructor for a device with a link-layer header: the operation table,
\* and the output function that goes with the state.
arp_constructor(n, ops) ==
    [n EXCEPT !.ops = ops,
              !.output = IF n.nud_state \in NUD_VALID THEN ops_connected_output(ops)
                         ELSE ops_output(ops)]

\* neigh_create between neigh_alloc and the table lock: key, device,
\* constructor, confirmed set two base_reachable_time in the past.
neigh_create_init(key, dev, ops, t) ==
    [arp_constructor([neigh_alloc_entry(t) EXCEPT !.key = key, !.dev = dev], ops)
        EXCEPT !.confirmed = t - 2 * base_reachable_time]

\* The link under the table lock: head of the chain, dead = 0, one more
\* reference for the caller.
neigh_create_link(n) == neigh_hold([n EXCEPT !.dead = FALSE])

\* Nothing sent, nothing in progress, no statistics yet.
Quiet ==
    /\ stats = [res_failed |-> 0, unres_discards |-> 0]
    /\ callbacks = {}
    /\ xmit = <<>>
    /\ reported = <<>>
    /\ freed = {}
    /\ solicits = <<>>
    /\ nextf = 1
    /\ nops = 0
    /\ tctx = [e \in Ents |-> IdleT]
    /\ uctx = [e \in Ents |-> IdleU]
    /\ procs = [p \in Procs |-> IdleP]
    /\ ncreate = 0
    /\ proxy_queue = <<>>
    /\ proxy_timer = IdleTimer
    /\ proxy_redone = <<>>
    /\ netif_running = [d \in Devs |-> TRUE]
    /\ hist = NoHist

\* The table just after neigh_create of key 1 on device 1 at time 0: one
\* linked entry in NUD_NONE that its creator still references.
OneEntry(ops) ==
    /\ now = 0
    /\ nb = [e \in Ents |-> IF e = 1
                             THEN neigh_create_link(neigh_create_init(1, 1, ops, 0))
                             ELSE FreeEntry]
    /\ ext = [e \in Ents |-> IF e = 1 THEN 1 ELSE 0]
    /\ hash_mask = init_hash_mask
    /\ hash_rnd = 0
    /\ hash_buckets = [i \in 0..init_hash_mask |->
                          IF i = Bucket(1, 1, 0, init_hash_mask) THEN <<1>> ELSE <<>>]
    /\ tbl_entries = 1
    /\ last_flush = 0

\* ------------------------------------------------- the state machine of one
\* entry under every operation.
Init ==
    /\ OneEntry("arp_generic_ops")
    /\ queue_len = MaxQueueLen
    /\ Quiet

Next ==
    \/ \E e \in Ents : Output(e)
    \/ \E e \in Ents : Confirm(e)
    \/ \E e \in Ents : TimerExpire(e)
    \/ \E e \in Ents : neigh_timer_handler(e)
    \/ \E e \in Ents : Update(e)
    \/ \E e \in Ents : UpdateOutput(e)
    \/ \E e \in Ents : UpdateRelock(e)
    \/ \E e \in Ents : UpdateReport(e)
    \/ \E e \in Ents : Linked(e) /\ neigh_delete(nb[e].key, nb[e].dev)
    \/ \E e \in Ents : Linked(e) /\ arp_req_delete(nb[e].key, nb[e].dev)
    \/ \E e \in Ents : Linked(e) /\ neigh_lookup(nb[e].key, nb[e].dev)
    \/ \E e \in Ents : Release(e)
    \/ \E i \in 0..hash_mask : neigh_periodic_work(i)
    \/ Tick

Spec == Init /\ [][Next]_vars

\* ------------------------------------------------- resolution without reply:
\* a fresh entry, senders and the timer only, any queue_len, a horizon long
\* enough for the probe budget to run out.
InitProbe ==
    /\ \E ops \in OpsTables : OneEntry(ops)
    /\ queue_len \in 0..MaxQueueLen
    /\ Quiet

ProbeTick == Elapse(MaxProbeTime)

NextProbe ==
    \/ \E e \in Ents : Output(e)
    \/ \E e \in Ents : TimerExpire(e)
    \/ \E e \in Ents : neigh_timer_handler(e)
    \/ ProbeTick

SpecProbe == InitProbe /\ [][NextProbe]_vars

\* ------------------------------------------------- resolution started by the
\* administrator: neigh_add with NTF_USE finds the entry and calls
\* neigh_event_send without a frame, then drops its reference.
neigh_add_use(e) ==
    /\ Linked(e)
    /\ Call
    /\ \E r \in {neigh_event_send(nb[e], NULL, now, queue_len)} :
           /\ Store(e, r.n)
           /\ freed' = freed \cup r.freed
           /\ stats' = [stats EXCEPT !.unres_discards = @ + r.discards]
    /\ hist' = NoHist
    /\ TableUnchanged
    /\ UNCHANGED <<now, ext, queue_len, callbacks, xmit, reported, solicits, nextf, tctx, uctx>>

NextQueue ==
    \/ \E e \in Ents : Output(e)
    \/ \E e \in Ents : neigh_add_use(e)
    \/ \E e \in Ents : TimerExpire(e)
    \/ \E e \in Ents : neigh_timer_handler(e)
    \/ ProbeTick

SpecQueue == InitProbe /\ [][NextQueue]_vars

\* ------------------------------------------------- creation under pressure:
\* threads in neigh_create on an empty table, forced GC, growth of the hash.

\* neigh_alloc's test on the count it read with atomic_inc_return.
neigh_alloc_wants_gc(entries, t) ==
    \/ entries >= gc_thresh3
    \/ entries >= gc_thresh2 /\ time_after(t, last_flush + 5 * HZ)

\* A neigh_alloc that never gives up.
neigh_alloc_never_refused(entries, shrunk) == FALSE

\* neigh_alloc gives up when the forced GC freed nothing and the count it read
\* had reached gc_thresh3.
neigh_alloc_refused(entries, shrunk) == ~shrunk /\ entries >= gc_thresh3

\* A forced GC that takes referenced entries too.
forced_gc_takes_held(e) ==
    Linked(e) /\ nb[e].nud_state # NUD_PERMANENT

\* A forced GC that does not spare the PERMANENT entries.
forced_gc_takes_permanent(e) ==
    Linked(e) /\ nb[e].refcnt = 1

\* neigh_forced_gc: every linked entry with no reference but the table's and
\* not PERMANENT is unlinked, marked dead and released.
forced_gc_takes(e) ==
    Linked(e) /\ nb[e].refcnt = 1 /\ nb[e].nud_state # NUD_PERMANENT

neigh_forced_gc ==
    LET rel(e) == neigh_release([nb[e] EXCEPT !.dead = TRUE])
    IN  [nb      |-> [e \in Ents |-> IF forced_gc_takes(e) THEN rel(e).n ELSE nb[e]],
         buckets |-> [i \in DOMAIN hash_buckets |->
                         SelectSeq(hash_buckets[i], LAMBDA e : ~forced_gc_takes(e))],
         freed   |-> UNION {rel(e).freed : e \in {x \in Ents : forced_gc_takes(x)}},
         shrunk  |-> \E e \in Ents : forced_gc_takes(e)]

\* The old chains in the order neigh_hash_grow walks them.
RECURSIVE ChainsFrom(_, _, _)
ChainsFrom(buckets, i, mask) ==
    IF i > mask THEN <<>> ELSE buckets[i] \o ChainsFrom(buckets, i + 1, mask)

\* The rehash of neigh_hash_grow: each entry goes to the head of its chain
\* under the new seed and mask.
RECURSIVE Rehash(_, _, _, _)
Rehash(order, buckets, rnd, mask) ==
    IF order = <<>> THEN buckets
    ELSE LET e == Head(order)
             h == Bucket(nb[e].key, nb[e].dev, rnd, mask)
         IN  Rehash(Tail(order), [buckets EXCEPT ![h] = <<e>> \o @], rnd, mask)

\* neigh_hash_grow to new_entries buckets with a fresh seed.
neigh_hash_grow(new_entries, rnd) ==
    Rehash(ChainsFrom(hash_buckets, 0, hash_mask),
           [i \in 0..(new_entries - 1) |-> <<>>], rnd, new_entries - 1)

\* The operation table arp_constructor picks for the device: devices whose
\* header_ops cache the header get arp_hh_ops.
DevOps(dev) == IF dev = 1 THEN "arp_generic_ops" ELSE "arp_hh_ops"

\* neigh_create, first step: neigh_alloc's atomic_inc_return on tbl->entries;
\* the thread keeps the count from before its own increment. Idle threads are
\* interchangeable: the lowest one takes the call.
CreateBegin(p, key, dev) ==
    /\ procs[p].pc = "idle"
    /\ \A q \in Procs : procs[q].pc = "idle" => p <= q
    /\ ncreate < MaxCreates
    /\ ncreate' = ncreate + 1
    /\ procs' = [procs EXCEPT ![p] = [pc |-> "alloc", key |-> key, dev |-> dev,
                                      entries |-> tbl_entries, n |-> NULL]]
    /\ tbl_entries' = tbl_entries + 1
    /\ hist' = NoHist
    /\ UNCHANGED <<now, nb, ext, hash_buckets, hash_mask, hash_rnd, last_flush, queue_len, callbacks,
                   stats, xmit, reported, freed, solicits, nextf, nops, tctx, uctx,
                   ProxyVars>>

\* neigh_create, second step: the rest of neigh_alloc (threshold test, forced
\* GC, allocation, which may fail) and the constructor. A failure takes the
\* increment back and neigh_create returns -ENOBUFS.
CreateAlloc(p) ==
    /\ procs[p].pc = "alloc"
    /\ LET entries == procs[p].entries
           key     == procs[p].key
           dev     == procs[p].dev
           wants   == neigh_alloc_wants_gc(entries, now)
           gc      == neigh_forced_gc
           m1      == IF wants THEN gc.nb ELSE nb
           refused == wants /\ neigh_alloc_refused(entries, gc.shrunk)
           free    == {e \in Ents : ~m1[e].alive}
       IN  /\ hash_buckets' = IF wants THEN gc.buckets ELSE hash_buckets
           /\ last_flush' = IF wants THEN now ELSE last_flush
           /\ freed' = IF wants THEN freed \cup gc.freed ELSE freed
           /\ callbacks' = neigh_cleanup_and_release(wants /\ gc.shrunk)
           /\ \E ok \in BOOLEAN :
                IF refused \/ ~ok \/ free = {}
                THEN /\ nb' = m1
                     /\ tbl_entries' = tbl_entries - Destroyed(m1) - 1
                     /\ procs' = [procs EXCEPT ![p] = IdleP]
                     /\ hist' = Did("neigh_create", NULL, key, dev, "none", ENOBUFS)
                ELSE LET n == CHOOSE e \in free : \A x \in free : e <= x
                     IN  /\ nb' = [m1 EXCEPT ![n] = neigh_create_init(key, dev, DevOps(dev), now)]
                         /\ tbl_entries' = tbl_entries - Destroyed(m1)
                         /\ procs' = [procs EXCEPT ![p].pc = "link", ![p].n = n]
                         /\ hist' = NoHist
    /\ UNCHANGED <<now, ext, hash_mask, hash_rnd, queue_len, stats, xmit, reported,
                   solicits, nextf, nops, tctx, uctx, ncreate, ProxyVars>>

\* neigh_create, last step, under the table lock: growth of the hash when
\* tbl->entries exceeds the number of buckets (skipped when the new array
\* cannot be allocated), the scan for an entry with the same key and device,
\* and either the link of the new entry or its release in favour of the one
\* found. The caller gets one reference on the entry returned.
CreateLink(p) ==
    /\ procs[p].pc = "link"
    /\ \E got \in BOOLEAN, rnd \in RndSet :
        LET key   == procs[p].key
            dev   == procs[p].dev
            n     == procs[p].n
            grow  == tbl_entries > hash_mask + 1 /\ got
            mask1 == IF grow THEN 2 * (hash_mask + 1) - 1 ELSE hash_mask
            rnd1  == IF grow THEN rnd ELSE hash_rnd
            bk1   == IF grow THEN neigh_hash_grow(2 * (hash_mask + 1), rnd) ELSE hash_buckets
            h     == Bucket(key, dev, rnd1, mask1)
            n1    == FindInChain(bk1[h], nb, key, dev)
            how   == IF grow THEN "grown" ELSE "same"
        IN  /\ hash_mask' = mask1
            /\ hash_rnd' = rnd1
            /\ IF n1 # NULL
               THEN /\ nb' = [nb EXCEPT ![n1] = neigh_hold(@), ![n] = neigh_release(@).n]
                    /\ tbl_entries' = tbl_entries - 1
                    /\ hash_buckets' = bk1
                    /\ ext' = [ext EXCEPT ![n1] = @ + 1]
                    /\ hist' = Did("neigh_create", n1, key, dev, "found_" \o how, "ok")
               ELSE /\ nb' = [nb EXCEPT ![n] = neigh_create_link(@)]
                    /\ tbl_entries' = tbl_entries
                    /\ hash_buckets' = [bk1 EXCEPT ![h] = <<n>> \o @]
                    /\ ext' = [ext EXCEPT ![n] = @ + 1]
                    /\ hist' = Did("neigh_create", n, key, dev, "linked_" \o how, "ok")
    /\ procs' = [procs EXCEPT ![p] = IdleP]
    /\ UNCHANGED <<now, last_flush, queue_len, callbacks, stats, xmit, reported, freed, solicits,
                   nextf, nops, tctx, uctx, ncreate, ProxyVars>>

\* An empty table more than five seconds after neigh_table_init set
\* last_flush: the first forced GC resets last_flush to now, and from then on
\* the threads are within the five seconds again.
InitTable ==
    /\ now = 5 * HZ + 1
    /\ nb = [e \in Ents |-> FreeEntry]
    /\ ext = [e \in Ents |-> 0]
    /\ hash_mask = init_hash_mask
    /\ hash_rnd = 0
    /\ hash_buckets = [i \in 0..init_hash_mask |-> <<>>]
    /\ tbl_entries = 0
    /\ last_flush = 0
    /\ queue_len = MaxQueueLen
    /\ Quiet

NextTable ==
    \/ \E p \in Procs, key \in Keys, dev \in Devs : CreateBegin(p, key, dev)
    \/ \E p \in Procs : CreateAlloc(p)
    \/ \E p \in Procs : CreateLink(p)
    \/ \E key \in Keys, dev \in Devs : nops < MaxTableOps /\ neigh_lookup(key, dev)
    \/ \E e \in Ents : nops < MaxTableOps /\ Release(e)

SpecTable == InitTable /\ [][NextTable]_vars

\* ------------------------------------------------- forced GC against
\* permanent and referenced entries.

\* neigh_add (netlink RTM_NEWNEIGH) with ndm_state NUD_PERMANENT on an entry
\* found by lookup: neigh_update with ADMIN, and with OVERRIDE when the
\* request carries NLM_F_REPLACE.
neigh_add(e, lladdr, replace) ==
    UpdateStart(e, lladdr, NUD_PERMANENT,
                IF replace THEN {F_ADMIN, F_OVERRIDE} ELSE {F_ADMIN}, "neigh_add")

NextGc ==
    \/ \E p \in Procs, key \in Keys, dev \in Devs : CreateBegin(p, key, dev)
    \/ \E p \in Procs : CreateAlloc(p)
    \/ \E p \in Procs : CreateLink(p)
    \/ \E e \in Ents, replace \in BOOLEAN : nops < MaxTableOps /\ neigh_add(e, 1, replace)
    \/ \E e \in Ents : nops < MaxTableOps /\ Release(e)

SpecGc == InitTable /\ [][NextGc]_vars

\* ------------------------------------------------- interface down
\* A flush that marks the entry dead and leaves the rest to its users.
flush_entry_kept(n) ==
    LET r == neigh_release([neigh_del_timer(n) EXCEPT !.dead = TRUE])
    IN  [n |-> r.n, freed |-> r.freed]

\* neigh_flush_dev on one entry of the device, under the table lock and the
\* entry lock: the timer is stopped and the entry marked dead; an entry that
\* somebody else still references loses its queue, gets the black-hole
\* output and NOARP or NONE; then the table's reference is dropped.
flush_entry(n) ==
    LET n1 == [neigh_del_timer(n) EXCEPT !.dead = TRUE]
        stray == n1.refcnt # 1
        n2 == IF stray
              THEN [n1 EXCEPT !.arp_queue = <<>>, !.output = "neigh_blackhole",
                              !.nud_state = IF n1.nud_state \in NUD_VALID
                                            THEN NUD_NOARP ELSE NUD_NONE]
              ELSE n1
        r == neigh_release(n2)
    IN  [n |-> r.n, freed |-> r.freed \cup (IF stray THEN SeqToSet(n1.arp_queue) ELSE {})]

\* neigh_flush_dev: every entry of the device leaves its chain.
flush_takes(e, dev) == Linked(e) /\ nb[e].dev = dev /\ \E i \in DOMAIN hash_buckets : e \in SeqToSet(hash_buckets[i])

neigh_flush_dev(dev) ==
    [nb      |-> [e \in Ents |-> IF flush_takes(e, dev) THEN flush_entry(nb[e]).n ELSE nb[e]],
     buckets |-> [i \in DOMAIN hash_buckets |->
                     SelectSeq(hash_buckets[i], LAMBDA e : ~flush_takes(e, dev))],
     freed   |-> UNION {flush_entry(nb[e]).freed : e \in {x \in Ents : flush_takes(x, dev)}}]

\* pneigh_queue_purge: every request waiting is freed.
pneigh_queue_purge(q) == {q[i].skb : i \in DOMAIN q}

\* neigh_ifdown: neigh_flush_dev under the table lock, then del_timer_sync of
\* the proxy timer and the purge of the proxy queue.
neigh_ifdown(dev) ==
    /\ \E f \in {neigh_flush_dev(dev)} :
          /\ nb' = f.nb
          /\ hash_buckets' = f.buckets
          /\ tbl_entries' = tbl_entries - Destroyed(f.nb)
          /\ freed' = freed \cup f.freed \cup pneigh_queue_purge(proxy_queue)
          /\ callbacks' = neigh_cleanup_and_release(f.buckets # hash_buckets)
    /\ proxy_timer' = [proxy_timer EXCEPT !.pending = FALSE]
    /\ proxy_queue' = <<>>
    /\ hist' = Did("neigh_ifdown", NULL, 0, dev, "none", "ok")
    /\ UNCHANGED <<now, ext, hash_mask, hash_rnd, last_flush, queue_len, stats, xmit,
                   reported, solicits, nextf, nops, tctx, uctx, procs, ncreate,
                   proxy_redone, netif_running>>

\* neigh_changeaddr: neigh_flush_dev under the table lock.
neigh_changeaddr(dev) ==
    /\ \E f \in {neigh_flush_dev(dev)} :
          /\ nb' = f.nb
          /\ hash_buckets' = f.buckets
          /\ tbl_entries' = tbl_entries - Destroyed(f.nb)
          /\ freed' = freed \cup f.freed
          /\ callbacks' = neigh_cleanup_and_release(f.buckets # hash_buckets)
    /\ hist' = Did("neigh_changeaddr", NULL, 0, dev, "none", "ok")
    /\ UNCHANGED <<now, ext, hash_mask, hash_rnd, last_flush, queue_len, stats, xmit,
                   reported, solicits, nextf, nops, tctx, uctx, procs, ncreate, ProxyVars>>

\* The device layer stops the device: netif_running(dev) is false from now
\* on.
dev_close(dev) ==
    /\ netif_running[dev]
    /\ netif_running' = [netif_running EXCEPT ![dev] = FALSE]
    /\ hist' = NoHist
    /\ UNCHANGED <<now, nb, ext, hash_buckets, hash_mask, hash_rnd, tbl_entries, last_flush,
                   queue_len, callbacks, stats, xmit, reported, freed, solicits, nextf, nops, tctx,
                   uctx, procs, ncreate, proxy_queue, proxy_timer, proxy_redone>>

\* ------------------------------------------------- proxy queue
\* A test that lets one more request in.
pneigh_queue_full_late(q) == Len(q) > proxy_qlen + 1

\* pneigh_enqueue's test of the queue length.
pneigh_queue_full(q) == Len(q) > proxy_qlen

\* A proxy timer that keeps its expiry when a request is added.
proxy_timer_kept(timer, sched_next) ==
    [pending |-> TRUE, expires |-> IF timer.pending THEN timer.expires ELSE sched_next]

\* pneigh_enqueue's del_timer and mod_timer: the earlier of the pending
\* expiry and the deadline of the new request.
proxy_timer_mod(timer, sched_next) ==
    [pending |-> TRUE,
     expires |-> IF timer.pending /\ time_before(timer.expires, sched_next)
                 THEN timer.expires ELSE sched_next]

\* pneigh_enqueue of a request received on dev: a deadline drawn within
\* proxy_delay, the request freed when the queue is beyond proxy_qlen, else
\* put at the tail and the timer set.
pneigh_enqueue(dev) ==
    /\ netif_running[dev]
    /\ nextf <= MaxProxyFrames
    /\ \E r \in 0..(proxy_delay - 1) :
          IF pneigh_queue_full(proxy_queue)
          THEN /\ freed' = freed \cup {nextf}
               /\ UNCHANGED <<proxy_queue, proxy_timer>>
          ELSE /\ proxy_queue' = Append(proxy_queue,
                                   [skb |-> nextf, sched_next |-> now + r, dev |-> dev])
               /\ proxy_timer' = proxy_timer_mod(proxy_timer, now + r)
               /\ freed' = freed
    /\ nextf' = nextf + 1
    /\ hist' = NoHist
    /\ UNCHANGED <<now, nb, ext, hash_buckets, hash_mask, hash_rnd, tbl_entries, last_flush,
                   queue_len, callbacks, stats, xmit, reported, solicits, nops, tctx, uctx, procs,
                   ncreate, proxy_redone, netif_running>>

\* The least element of a non-empty set of numbers.
MinOf(S) == CHOOSE x \in S : \A y \in S : x <= y

\* neigh_proxy_process, the handler of the proxy timer: every request whose
\* deadline has come leaves the queue, for proxy_redo when its device is
\* running and to be freed otherwise; the timer is set to the nearest
\* deadline left.
neigh_proxy_process ==
    /\ proxy_timer.pending
    /\ time_before_eq(proxy_timer.expires, now)
    /\ \E rest \in {SelectSeq(proxy_queue, LAMBDA x : x.sched_next - now > 0)} :
       \E out \in {SelectSeq(proxy_queue, LAMBDA x : x.sched_next - now <= 0)} :
          /\ proxy_queue' = rest
          /\ proxy_redone' = proxy_redone \o
                 [i \in DOMAIN SelectSeq(out, LAMBDA x : netif_running[x.dev]) |->
                     <<SelectSeq(out, LAMBDA x : netif_running[x.dev])[i].skb, now>>]
          /\ freed' = freed \cup {out[i].skb : i \in {j \in DOMAIN out : ~netif_running[out[j].dev]}}
          /\ proxy_timer' = IF rest = <<>> THEN [proxy_timer EXCEPT !.pending = FALSE]
                            ELSE [pending |-> TRUE,
                                  expires |-> now + MinOf({rest[i].sched_next - now :
                                                            i \in DOMAIN rest})]
    /\ hist' = NoHist
    /\ UNCHANGED <<now, nb, ext, hash_buckets, hash_mask, hash_rnd, tbl_entries, last_flush,
                   queue_len, callbacks, stats, xmit, reported, solicits, nextf, nops, tctx, uctx,
                   procs, ncreate, netif_running>>

ProxyTick == Elapse(MaxProxyTime)

InitProxy ==
    /\ OneEntry("arp_generic_ops")
    /\ queue_len = MaxQueueLen
    /\ Quiet

NextProxy ==
    \/ \E dev \in Devs : pneigh_enqueue(dev)
    \/ neigh_proxy_process
    \/ \E dev \in Devs : dev_close(dev)
    \/ \E dev \in Devs : neigh_ifdown(dev)
    \/ ProxyTick

SpecProxy == InitProxy /\ [][NextProxy]_vars

\* ------------------------------------------------- the life of a binding:
\* senders, confirmations, the timer and the packets ARP receives for it.

\* An arp_process for which every packet asserts reachability.
arp_process_asserting(e, sha, reply) ==
    UpdateStart(e, sha, NUD_REACHABLE,
                IF time_after(now, nb[e].updated + locktime) THEN {F_OVERRIDE} ELSE {},
                "arp_process")

\* arp_process, the tail that updates the cache from a received packet with
\* sender address sha: REACHABLE for a unicast reply, STALE otherwise, and
\* OVERRIDE only when the last update is more than locktime old.
arp_process(e, sha, reply) ==
    UpdateStart(e, sha, IF reply THEN NUD_REACHABLE ELSE NUD_STALE,
                IF time_after(now, nb[e].updated + locktime) THEN {F_OVERRIDE} ELSE {},
                "arp_process")

\* neigh_event_ns, called by arp_process for a request it answers: STALE with
\* the sender's address, always with OVERRIDE.
neigh_event_ns(e, lladdr) ==
    UpdateStart(e, lladdr, NUD_STALE, {F_OVERRIDE}, "neigh_event_ns")

InitNud ==
    /\ \E ops \in OpsTables : OneEntry(ops)
    /\ queue_len = MaxQueueLen
    /\ Quiet

NudTick == Elapse(MaxNudTime)

NextNud ==
    \/ \E e \in Ents : Output(e)
    \/ \E e \in Ents : Confirm(e)
    \/ \E e \in Ents : TimerExpire(e)
    \/ \E e \in Ents : neigh_timer_handler(e)
    \/ \E e \in Ents, sha \in Addrs, reply \in BOOLEAN : arp_process(e, sha, reply)
    \/ \E e \in Ents, lladdr \in Addrs : neigh_event_ns(e, lladdr)
    \/ \E e \in Ents : UpdateOutput(e)
    \/ \E e \in Ents : UpdateRelock(e)
    \/ NudTick

SpecNud == InitNud /\ [][NextNud]_vars

\* ------------------------------------------------- confirmations against
\* the timer: senders, confirmations, replies, requests and the timer, over a
\* horizon long enough for a resolution to fail.
ConfirmTick == Elapse(MaxProbeTime)

NextConfirm ==
    \/ \E e \in Ents : Output(e)
    \/ \E e \in Ents : Confirm(e)
    \/ \E e \in Ents : TimerExpire(e)
    \/ \E e \in Ents : neigh_timer_handler(e)
    \/ \E e \in Ents, reply \in BOOLEAN : arp_process(e, 1, reply)
    \/ \E e \in Ents : UpdateOutput(e)
    \/ \E e \in Ents : UpdateRelock(e)
    \/ ConfirmTick

SpecConfirm == InitNud /\ [][NextConfirm]_vars

\* ------------------------------------------------- an entry whose device goes
\* down or changes its address while a user holds it.
DownTick == Elapse(MaxTime)

NextDown ==
    \/ \E e \in Ents : Output(e)
    \/ \E e \in Ents : neigh_hh_output(e)
    \/ \E e \in Ents : arp_process(e, 1, TRUE)
    \/ \E e \in Ents : TimerExpire(e)
    \/ \E e \in Ents : neigh_timer_handler(e)
    \/ \E e \in Ents : UpdateOutput(e)
    \/ \E e \in Ents : UpdateRelock(e)
    \/ \E e \in Ents : Release(e)
    \/ \E dev \in Devs : dev_close(dev)
    \/ \E dev \in Devs : neigh_ifdown(dev)
    \/ \E dev \in Devs : neigh_changeaddr(dev)
    \/ DownTick

SpecDown == InitNud /\ [][NextDown]_vars

\* ------------------------------------------------- a device that goes down
\* between the lookup of a receive path and its neigh_update: the packet's
\* sender address reaches neigh_update through the pointer the lookup
\* returned, whether or not the table still links the entry.
NextStray ==
    \/ \E e \in Ents : Output(e)
    \/ \E e \in Ents, sha \in Addrs, reply \in BOOLEAN :
          /\ Held(e)
          /\ neigh_update(e, sha, IF reply THEN NUD_REACHABLE ELSE NUD_STALE,
                          IF time_after(now, nb[e].updated + locktime) THEN {F_OVERRIDE}
                          ELSE {},
                          "arp_process")
    \/ \E e \in Ents : TimerExpire(e)
    \/ \E e \in Ents : neigh_timer_handler(e)
    \/ \E e \in Ents : UpdateOutput(e)
    \/ \E e \in Ents : UpdateRelock(e)
    \/ \E dev \in Devs : neigh_ifdown(dev)
    \/ \E dev \in Devs : neigh_changeaddr(dev)
    \/ DownTick

SpecStray == InitNud /\ [][NextStray]_vars

\* ------------------------------------------------- the life of an entry:
\* creation (one neigh_create at a time), lookup and release, senders,
\* deletion, the timer, both garbage collections and the interface going down.
LifeTick == Elapse(MaxLifeTime)

NextLife ==
    \/ \E p \in Procs, key \in Keys, dev \in Devs :
          ncreate < MaxLifeCreates /\ (\A q \in Procs : procs[q].pc = "idle") /\ CreateBegin(p, key, dev)
    \/ \E p \in Procs : CreateAlloc(p)
    \/ \E p \in Procs : CreateLink(p)
    \/ \E e \in Ents : nops < MaxTableOps /\ Linked(e) /\ neigh_lookup(nb[e].key, nb[e].dev)
    \/ \E e \in Ents : nops < MaxTableOps /\ Release(e)
    \/ \E e \in Ents : nops < MaxTableOps /\ Output(e)
    \/ \E e \in Ents : nops < MaxTableOps /\ Linked(e) /\ neigh_delete(nb[e].key, nb[e].dev)
    \/ \E e \in Ents : UpdateReport(e)
    \/ \E e \in Ents : TimerExpire(e)
    \/ \E e \in Ents : neigh_timer_handler(e)
    \/ \E i \in 0..hash_mask : neigh_periodic_work(i)
    \/ \E dev \in Devs : neigh_ifdown(dev)
    \/ LifeTick

SpecLife == Init /\ [][NextLife]_vars

\* ------------------------------------------------- the two collectors at
\* work: an empty table long after the last flush, threads creating entries
\* (the second creation runs the forced GC), users releasing, sending and
\* confirming, the administrator making an entry PERMANENT or deleting it,
\* the timer, the periodic sweep, and a horizon beyond gc_staletime.
SweepTick == Elapse(5 * HZ + 1 + MaxSweepTime)

NextSweep ==
    \/ \E p \in Procs, key \in Keys :
          ncreate < MaxLifeCreates /\ (\A q \in Procs : procs[q].pc = "idle")
          /\ CreateBegin(p, key, 1)
    \/ \E p \in Procs : CreateAlloc(p)
    \/ \E p \in Procs : CreateLink(p)
    \/ \E e \in Ents : nops < MaxTableOps /\ Release(e)
    \/ \E e \in Ents : nops < MaxTableOps /\ Output(e)
    \/ \E e \in Ents : nops < MaxTableOps /\ Confirm(e)
    \/ \E e \in Ents : nops < MaxTableOps
                       /\ UpdateStart(e, 1, NUD_PERMANENT, {F_OVERRIDE, F_ADMIN}, "neigh_update")
    \/ \E e \in Ents : nops < MaxTableOps /\ Linked(e) /\ neigh_delete(nb[e].key, nb[e].dev)
    \/ \E e \in Ents : UpdateReport(e)
    \/ \E e \in Ents : TimerExpire(e)
    \/ \E e \in Ents : neigh_timer_handler(e)
    \/ \E i \in 0..hash_mask : neigh_periodic_work(i)
    \/ SweepTick

SpecSweep == InitTable /\ [][NextSweep]_vars

\* ------------------------------------------------- the packets ARP receives:
\* arp_process from the test of the sender's protocol address on, for a host
\* that does not forward (the proxy branch is not taken), on device 1.
\* sip is the sender's protocol address (0: duplicate address detection), sha
\* its link-layer address, op the operation, host whether the frame was
\* addressed to this host, local whether the target address routes to this
\* host, dont_send the verdict of arp_ignore and arp_filter, accept the
\* ARP_ACCEPT setting, ok whether neigh_alloc gets memory.  An entry is
\* created in the same step while the table is below its thresholds.
\* The packets and settings that differ for arp_process: local is read for
\* requests only, dont_send for requests for a local address, host and accept
\* for replies, and nothing but the operation for a sender address of zero.
ArpInputs ==
    {i \in [sip : {0} \cup Keys, sha : Addrs, op : {"REQUEST", "REPLY"}, host : BOOLEAN,
            local : BOOLEAN, dont_send : BOOLEAN, accept : BOOLEAN, ok : BOOLEAN] :
        /\ i.op = "REPLY" => ~i.local
        /\ i.op = "REQUEST" => ~i.host /\ ~i.accept
        /\ ~i.local => ~i.dont_send
        /\ i.sip = 0 => i.sha = 1 /\ ~i.host /\ ~i.accept /\ ~i.dont_send /\ i.ok}

arp_rcv(sip, sha, op, host, local, dont_send, accept, ok) ==
    \E e \in {IF sip = 0 THEN NULL ELSE neigh_lookup_find(sip, 1)} :
    \E forus \in {op = "REQUEST" /\ local} :
    \E create \in {e = NULL /\ (forus \/ (accept /\ op = "REPLY"))} :
        IF sip = 0 \/ (forus /\ dont_send) \/ (e = NULL /\ ~(create /\ ok))
        THEN /\ Call
             /\ hist' = Did("arp_process", NULL, sip, 1, "none", "ok")
             /\ UNCHANGED <<now, nb, ext, hash_buckets, hash_mask, hash_rnd, tbl_entries,
                            last_flush, queue_len, callbacks, stats, xmit, reported, freed, solicits,
                            nextf, tctx, uctx, procs, ncreate, ProxyVars>>
        ELSE IF e # NULL
        THEN IF forus THEN neigh_event_ns(e, sha)
             ELSE arp_process(e, sha, op = "REPLY" /\ host)
        ELSE /\ Call
             /\ ~neigh_alloc_wants_gc(tbl_entries, now)
             /\ tbl_entries + 1 <= hash_mask + 1
             /\ \E n \in {x \in Ents : ~nb[x].alive /\ \A y \in Ents : ~nb[y].alive => x <= y} :
                \E c \in {neigh_create_link(neigh_create_init(sip, 1, DevOps(1), now))} :
                \E u \in {neigh_update_locked(c, sha,
                                              IF forus \/ ~(op = "REPLY" /\ host)
                                              THEN NUD_STALE ELSE NUD_REACHABLE,
                                              IF forus THEN {F_OVERRIDE} ELSE {}, now)} :
                    /\ nb' = [nb EXCEPT ![n] = neigh_release(drain_turn(u.n).n).n]
                    /\ hash_buckets' = [hash_buckets EXCEPT
                                          ![Bucket(sip, 1, hash_rnd, hash_mask)] = <<n>> \o @]
                    /\ hist' = Did(IF forus THEN "neigh_event_ns" ELSE "arp_process",
                                   n, sip, 1, "created", u.err)
             /\ tbl_entries' = tbl_entries + 1
             /\ UNCHANGED <<now, ext, hash_mask, hash_rnd, last_flush, queue_len, callbacks, stats,
                            xmit, reported, freed, solicits, nextf, tctx, uctx, procs,
                            ncreate, ProxyVars>>

NextArp ==
    \/ \E i \in ArpInputs :
          arp_rcv(i.sip, i.sha, i.op, i.host, i.local, i.dont_send, i.accept, i.ok)
    \/ \E e \in Ents : Output(e)
    \/ \E e \in Ents : TimerExpire(e)
    \/ \E e \in Ents : neigh_timer_handler(e)
    \/ \E e \in Ents : UpdateOutput(e)
    \/ \E e \in Ents : UpdateRelock(e)
    \/ Tick

SpecArp == Init /\ [][NextArp]_vars

\* ------------------------------------------------- entries that need no
\* resolution.  arp_constructor for a device without header_ops
\* (arp_direct_ops, output = queue_xmit), and for a multicast or broadcast
\* address or a loopback, NOARP or point-to-point device: NUD_NOARP with the
\* address the constructor makes up, and the connected output of the table.
arp_constructor_noarp(n, ops) ==
    IF ops = "arp_direct_ops"
    THEN [n EXCEPT !.nud_state = NUD_NOARP, !.ops = ops, !.output = "dev_queue_xmit"]
    ELSE [n EXCEPT !.nud_state = NUD_NOARP, !.ha = 1, !.ops = ops,
                   !.output = ops_connected_output(ops)]

\* One entry, of any kind the constructor makes, held by one user.
InitNoarp ==
    /\ now = 0
    /\ \E ops \in OpsTables \cup {"arp_direct_ops"}, noarp \in BOOLEAN :
          /\ ops = "arp_direct_ops" => noarp
          /\ nb = [e \in Ents |->
                     IF e # 1 THEN FreeEntry
                     ELSE IF ~noarp THEN neigh_create_link(neigh_create_init(1, 1, ops, 0))
                     ELSE neigh_create_link(
                              [arp_constructor_noarp(
                                   [neigh_alloc_entry(0) EXCEPT !.key = 1, !.dev = 1], ops)
                                  EXCEPT !.confirmed = 0 - 2 * base_reachable_time])]
    /\ ext = [e \in Ents |-> IF e = 1 THEN 1 ELSE 0]
    /\ hash_mask = init_hash_mask
    /\ hash_rnd = 0
    /\ hash_buckets = [i \in 0..init_hash_mask |->
                          IF i = Bucket(1, 1, 0, init_hash_mask) THEN <<1>> ELSE <<>>]
    /\ tbl_entries = 1
    /\ last_flush = 0
    /\ queue_len = MaxQueueLen
    /\ Quiet

SpecNoarp == InitNoarp /\ [][NextNud]_vars

\* ------------------------------------------------- the state machine of one
\* entry with the timers running to their end: users call before MaxTime, and
\* the clock runs on while a timer is pending, for longer than any chain of
\* timers lasts (with no caller and no timer left, nothing can happen any
\* more); a due timer fires, a handler and a neigh_update that have started
\* go on, time passes.
FairTick ==
    /\ now < MaxTime \/ \E e \in Ents : nb[e].alive /\ nb[e].timer_pending
    /\ Elapse(MaxTime + (3 + ucast_probes + mcast_probes) * HZ)

NextFair ==
    \/ now < MaxTime /\ \E e \in Ents : Output(e) \/ Confirm(e)
    \/ /\ now < MaxTime
       /\ \E e \in Ents, lladdr \in {NULL, 1}, new \in NudStates :
              UpdateStart(e, lladdr, new, {F_OVERRIDE, F_ADMIN}, "neigh_update")
    \/ \E e \in Ents : TimerExpire(e)
    \/ \E e \in Ents : neigh_timer_handler(e)
    \/ \E e \in Ents : UpdateOutput(e) \/ UpdateRelock(e) \/ UpdateReport(e)
    \/ FairTick

SpecFair ==
    /\ Init /\ [][NextFair]_vars
    /\ WF_vars(\E e \in Ents : TimerExpire(e))
    /\ WF_vars(\E e \in Ents : neigh_timer_handler(e))
    /\ WF_vars(\E e \in Ents : UpdateOutput(e) \/ UpdateRelock(e) \/ UpdateReport(e))
    /\ WF_vars(FairTick)

\* ======================================================================
\* Claims on the state machine of one entry (specification Spec)
\* ======================================================================

\* C1: at every point where no operation holds the entry's lock, a linked
\* entry has a pending timer, or its timer handler in progress, exactly when
\* its NUD state is INCOMPLETE, REACHABLE, DELAY or PROBE.
C1_TimerIffTimerState ==
    \A e \in Ents :
        Linked(e) => ((nb[e].timer_pending \/ tctx[e].pc # "idle")
                        <=> nb[e].nud_state \in NUD_IN_TIMER)

\* The verb that has just returned followed a successful
\* neigh_update(e, L, NUD_STALE, ...) on the same entry with nothing between.
AfterUpdateStale(h) ==
    /\ h.prev.op = "neigh_update" /\ h.prev.arg = NUD_STALE /\ h.prev.res = "ok"
    /\ h.prev.e = h.e

LookupAfterDelete(h) ==
    /\ h.op = "neigh_lookup"
    /\ h.prev.op \in {"neigh_delete", "arp_req_delete"} /\ h.prev.res = "ok"
    /\ h.prev.key = h.key /\ h.prev.dev = h.dev

\* C5 as stated: after a delete verb has returned success on entry e, an
\* immediate neigh_lookup with e's key returns none.
C5_LookupMissesAfterDelete == LookupAfterDelete(hist) => hist.e = NULL

\* C5 amended: after a delete verb has returned success on entry e, an
\* immediate neigh_lookup with e's key still returns e, held once more for the
\* caller next to the table's own reference; e stays linked, since the verb
\* has only run neigh_update(e, NULL, NUD_FAILED, OVERRIDE|ADMIN).
C5_LookupFindsAfterDelete ==
    LookupAfterDelete(hist)
        => /\ hist.e = hist.prev.e
           /\ Linked(hist.e)
           /\ nb[hist.e].key = hist.key /\ nb[hist.e].dev = hist.dev
           /\ nb[hist.e].refcnt >= 1 + ext[hist.e]

\* A lookup has found the entry that a delete verb has just left in FAILED.
C5_Witness ==
    /\ LookupAfterDelete(hist)
    /\ hist.e # NULL /\ hist.e = hist.prev.e
    /\ nb[hist.e].nud_state = NUD_FAILED

\* The frames of q in the transmit log x, in the order of their transmission.
XmitOf(x, q) == SelectSeq(x, LAMBDA p : p[1] \in SeqToSet(q))

\* Every frame of q transmitted in the order of q with destination lladdr.
DeliveredInOrder(x, q, lladdr) == XmitOf(x, q) = [i \in 1..Len(q) |-> <<q[i], lladdr>>]

\* The step in which the drain of neigh_update on e takes the lock for the
\* last time, purges and returns.
DrainReturns(e) == uctx[e].pc = "relock" /\ uctx'[e].pc = "idle"

\* No other operation has changed the state, the address, the output
\* function or the queue of e while the drain had released the lock.
DrainAlone(e) == uctx[e].alone /\ Snap(nb[e]) = uctx[e].snap

\* C10 as stated: when neigh_update takes an entry from a non-VALID state to a
\* VALID one with address L, every queued frame is handed to output in FIFO
\* order with L as destination, none is dropped, and the queue is empty at the
\* return, also when other operations run while the drain has released the
\* lock.
C10_AllQueuedDelivered ==
    [][\A e \in Ents :
          DrainReturns(e)
              => /\ DeliveredInOrder(xmit', uctx[e].q0, uctx[e].lladdr)
                 /\ nb'[e].arp_queue = <<>>]_vars

\* C10 amended: the queue is empty when the update returns and every frame
\* queued at the transition has been transmitted, freed, or taken by a
\* concurrent neigh_invalidate for error_report; all of them are transmitted,
\* in FIFO order with L as destination, when no other operation changes the
\* entry while the drain has released the lock.  Otherwise the drain stops at
\* the first turn that finds the state not VALID and the final purge frees
\* what is left.
C10_DrainAloneDelivers ==
    [][\A e \in Ents :
          DrainReturns(e)
              => /\ nb'[e].arp_queue = <<>>
                 /\ \A f \in SeqToSet(uctx[e].q0) :
                        \/ f \in freed' \cup SeqToSet(reported') \cup {tctx'[e].skb}
                        \/ \E i \in 1..Len(xmit') : xmit'[i][1] = f
                 /\ DrainAlone(e)
                        => /\ DeliveredInOrder(xmit', uctx[e].q0, uctx[e].lladdr)
                           /\ SeqToSet(uctx[e].q0) \cap freed' = {}]_vars

\* An undisturbed drain has transmitted both frames of its queue.
C10_Witness ==
    \E e \in Ents :
        /\ uctx[e].pc = "relock" /\ DrainAlone(e)
        /\ Len(uctx[e].q0) = 2
        /\ nb[e].arp_queue = <<>>
        /\ DeliveredInOrder(xmit, uctx[e].q0, uctx[e].lladdr)
        /\ nb[e].ha = uctx[e].lladdr /\ uctx[e].lladdr # NULL

\* ======================================================================
\* Claims on resolution without reply (specification SpecProbe)
\* ======================================================================

\* C2: for every entry and every value of parms->queue_len >= 0, zero
\* included, the length of arp_queue never exceeds queue_len.
C2_QueueWithinLimit ==
    \A e \in Ents : nb[e].alive => Len(nb[e].arp_queue) <= queue_len

\* One frame has been sent on the entry, it was never answered, and the timer
\* handler has taken the entry to NUD_FAILED and finished.
FailedAfterOneUse ==
    /\ nextf = 2 /\ nops = 1
    /\ nb[1].alive /\ nb[1].nud_state = NUD_FAILED
    /\ tctx[1].pc = "idle"

\* Consecutive times are exactly gap apart.
Spaced(times, gap) == \A i \in 1..(Len(times) - 1) : times[i + 1] = times[i] + gap

\* C8 as stated: with ucast_probes = 3, mcast_probes = 3, app_probes = 0, one
\* USE with a frame on a fresh NUD_NONE entry and no reply gives exactly
\* ucast_probes + mcast_probes + app_probes solicitations spaced retrans_time
\* apart, then NUD_FAILED, the frame handed to error_report and res_failed
\* raised by one.
C8_AllProbesSent ==
    FailedAfterOneUse
        => /\ Len(solicits) = ucast_probes + mcast_probes + app_probes
           /\ Spaced(solicits, retrans_time)
           /\ reported = <<1>>
           /\ stats.res_failed = 1

\* C8 amended: the same run gives exactly mcast_probes + app_probes
\* solicitations (the probe counter starts at ucast_probes), one per timer
\* firing spaced retrans_time apart, the entry fails one retrans_time after
\* the last one, the frame is handed to error_report and res_failed is raised
\* by one.  While the entry is INCOMPLETE no more than mcast_probes +
\* app_probes solicitations have been sent.
C8_MulticastProbesSent ==
    /\ (nops = 1 /\ nb[1].alive /\ nb[1].nud_state = NUD_INCOMPLETE)
           => Len(solicits) <= mcast_probes + app_probes
    /\ FailedAfterOneUse
           => /\ Len(solicits) = mcast_probes + app_probes
              /\ Spaced(solicits, retrans_time)
              /\ nb[1].updated = solicits[Len(solicits)] + retrans_time
              /\ nb[1].probes = ucast_probes + mcast_probes + app_probes
              /\ reported = <<1>>
              /\ freed = {} /\ xmit = <<>>
              /\ stats.res_failed = 1

\* The unanswered resolution has run to NUD_FAILED after three solicitations.
C8_Witness ==
    /\ FailedAfterOneUse
    /\ Len(solicits) = 3
    /\ reported = <<1>>
    /\ stats.res_failed = 1

\* The step of a sender whose frame finds the entry in NUD_NONE.
UseOnNone(e) == nb[e].alive /\ nb[e].nud_state = NUD_NONE /\ nextf' = nextf + 1

\* The step of the timer handler that is the first firing after such a USE.
FirstFiring(e, start) ==
    /\ tctx[e].pc = "fired" /\ tctx'[e].pc = "idle"
    /\ nb[e].nud_state = NUD_INCOMPLETE /\ nb[e].probes = start

\* C9 as stated: USE with a frame on a fresh NUD_NONE entry moves it to
\* INCOMPLETE with the frame queued, the probe counter at 0 and the timer armed
\* one tick ahead, and sends no solicitation; the first timer firing then
\* emits exactly one solicitation and raises the probe counter from 0 to 1.
C9_ProbesStartAtZero ==
    [][\A e \in Ents :
          /\ UseOnNone(e)
                => /\ nb'[e].nud_state = NUD_INCOMPLETE
                   /\ nb'[e].arp_queue = <<nextf>>
                   /\ nb'[e].probes = 0
                   /\ nb'[e].timer_pending /\ nb'[e].timer_expires = now + 1
                   /\ solicits' = solicits
          /\ FirstFiring(e, 0)
                => /\ solicits' = Append(solicits, now)
                   /\ nb'[e].probes = 1]_vars

\* C9 amended: the same, but the probe counter is at ucast_probes after the
\* USE, and the first timer firing raises it to ucast_probes + 1.
C9_ProbesStartAtUcast ==
    [][\A e \in Ents :
          /\ UseOnNone(e)
                => /\ nb'[e].nud_state = NUD_INCOMPLETE
                   /\ nb'[e].arp_queue = <<nextf>>
                   /\ nb'[e].probes = ucast_probes
                   /\ nb'[e].timer_pending /\ nb'[e].timer_expires = now + 1
                   /\ solicits' = solicits
          /\ FirstFiring(e, ucast_probes)
                => /\ solicits' = Append(solicits, now)
                   /\ nb'[e].probes = ucast_probes + 1
                   /\ nb'[e].nud_state = NUD_INCOMPLETE]_vars

\* The first firing after the USE has sent one solicitation.
C9_Witness ==
    /\ nb[1].alive /\ nb[1].nud_state = NUD_INCOMPLETE
    /\ nb[1].probes = ucast_probes + 1
    /\ Len(solicits) = 1
    /\ nb[1].arp_queue = <<1>>
    /\ tctx[1].pc = "idle"

\* ======================================================================
\* Claims on creation (specification SpecTable)
\* ======================================================================

\* Entries allocated and not yet destroyed, and the neigh_alloc calls that
\* have incremented tbl->entries and not yet run their threshold test.
Allocated == {e \in Ents : nb[e].alive}
InAlloc == {p \in Procs : procs[p].pc = "alloc"}
CreateReturned == hist.op = "neigh_create" /\ hist.res = "ok"

C6_LookupAfterCreate ==
    [][(CreateReturned /\ hist'.op = "neigh_lookup"
          /\ hist'.key = hist.key /\ hist'.dev = hist.dev)
       => (hist'.e = hist.e /\ nb'[hist.e].refcnt = nb[hist.e].refcnt + 1)]_vars

\* A lookup has followed a create that linked its entry after growing the
\* hash under a new seed, next to an older entry.
C6_Witness ==
    /\ hist.op = "neigh_lookup"
    /\ hist.prev.op = "neigh_create"
    /\ hist.prev.arg = "linked_grown"
    /\ hist.prev.key = hist.key /\ hist.prev.dev = hist.dev
    /\ hist.e = hist.prev.e
    /\ hash_rnd # 0
    /\ \E e \in Ents : Linked(e) /\ e # hist.e

\* The entries in the chains, and the check that each linked entry sits once,
\* in the chain of its hash.
InChains == UNION {SeqToSet(hash_buckets[i]) : i \in DOMAIN hash_buckets}
ChainsSound ==
    /\ InChains = {e \in Ents : Linked(e)}
    /\ \A i \in DOMAIN hash_buckets :
         \A j, k \in DOMAIN hash_buckets[i] :
            /\ hash_buckets[i][j] = hash_buckets[i][k] => j = k
            /\ Bucket(nb[hash_buckets[i][j]].key, nb[hash_buckets[i][j]].dev,
                      hash_rnd, hash_mask) = i
OnePerKey ==
    \A e1, e2 \in InChains :
        nb[e1].key = nb[e2].key /\ nb[e1].dev = nb[e2].dev => e1 = e2

HandlerOnReachable(e) ==
    /\ tctx[e].pc = "fired"
    /\ tctx'[e].pc = "idle"
    /\ nb[e].nud_state = NUD_REACHABLE
    /\ time_before_eq(nb[e].used, nb[e].confirmed)

\* C11 (as stated): a REACHABLE entry confirmed at T and neither used nor
\* confirmed since is moved to STALE, with no timer left armed, by the timer
\* that fires at exactly T + reachable_time.
C11_StaleAtReachableTime ==
    [][\A e \in Ents :
          (HandlerOnReachable(e) /\ now = nb[e].confirmed + reachable_time)
          => (nb'[e].nud_state = NUD_STALE /\ ~nb'[e].timer_pending)]_vars

\* C11 (amended): the timer that fires at exactly T + reachable_time leaves
\* the entry REACHABLE and re-arms itself HZ/2 later; the first firing after
\* T + reachable_time moves the entry to STALE and leaves no timer armed.
C11_StaleAfterReachableTime ==
    [][\A e \in Ents :
          /\ (HandlerOnReachable(e) /\ now = nb[e].confirmed + reachable_time)
             => /\ nb'[e].nud_state = NUD_REACHABLE
                /\ nb'[e].timer_pending
                /\ nb'[e].timer_expires = now + HZ \div 2
          /\ (HandlerOnReachable(e) /\ time_after(now, nb[e].confirmed + reachable_time))
             => /\ nb'[e].nud_state = NUD_STALE
                /\ ~nb'[e].timer_pending]_vars

\* A REACHABLE entry whose timer fired at exactly confirmed + reachable_time
\* and was re-armed HZ/2 later.
C11_Witness ==
    \E e \in Ents :
        /\ nb[e].alive /\ nb[e].nud_state = NUD_REACHABLE
        /\ tctx[e].pc = "idle"
        /\ time_before_eq(nb[e].used, nb[e].confirmed)
        /\ now = nb[e].confirmed + reachable_time
        /\ nb[e].timer_pending
        /\ nb[e].timer_expires = now + HZ \div 2

\* A holder of entry e, found in state s, sends frame nextf through the
\* output pointer of e.
UseIn(e, s) ==
    /\ Held(e)
    /\ nb[e].nud_state = s
    /\ nextf' = nextf + 1
    /\ nb'[e] # nb[e]

\* C12: a USE on a STALE entry moves it to DELAY with one timer armed at
\* now + delay_probe_time; the frame is not queued but transmitted at once
\* with the cached address.
C12_UseOnStaleDelays ==
    [][\A e \in Ents :
          UseIn(e, NUD_STALE)
          => /\ nb'[e].nud_state = NUD_DELAY
             /\ ~nb[e].timer_pending
             /\ nb'[e].timer_pending
             /\ nb'[e].timer_expires = now + delay_probe_time
             /\ nb'[e].refcnt = nb[e].refcnt + 1
             /\ nb'[e].arp_queue = nb[e].arp_queue
             /\ nb'[e].ha = nb[e].ha
             /\ xmit' = Append(xmit, <<nextf, nb[e].ha>>)
             /\ freed' = freed]_vars

\* An entry just moved from STALE to DELAY by the frame transmitted last.
C12_Witness ==
    \E e \in Ents :
        /\ nb[e].alive /\ nb[e].nud_state = NUD_DELAY
        /\ nb[e].used = now /\ nb[e].updated = now
        /\ nb[e].timer_pending
        /\ nb[e].timer_expires = now + delay_probe_time
        /\ xmit # <<>>
        /\ xmit[Len(xmit)] = <<nextf - 1, nb[e].ha>>
        /\ nb[e].arp_queue = <<>>

\* A packet claiming address a for the binding of e is received, through
\* either branch of arp_process.
Received(e, a) ==
    \/ \E reply \in BOOLEAN : arp_process(e, a, reply)
    \/ neigh_event_ns(e, a)

\* The binding of e is VALID and was last updated less than locktime ago.
Locked(e) ==
    /\ nb[e].nud_state \in NUD_VALID
    /\ time_before(now, nb[e].updated + locktime)

\* C13: a VALID binding updated at T keeps its address when a packet
\* claiming another address arrives before T + locktime, whichever branch of
\* the receive path the packet takes; a packet arriving more than locktime
\* after T changes the address to the one it claims.
C13_LocktimeHolds ==
    [][\A e \in Ents, a \in Addrs :
          /\ (Received(e, a) /\ Locked(e)) => nb'[e].ha = nb[e].ha
          /\ (Received(e, a) /\ nb[e].nud_state \in NUD_VALID
                /\ time_after(now, nb[e].updated + locktime))
             => nb'[e].ha = a]_vars

\* ======================================================================
\* Claims on forced GC at the hard limit (specification SpecGc)
\* ======================================================================

\* Thread p runs the rest of neigh_alloc after it read a count that had
\* reached gc_thresh3.
AllocAtThresh3(p) ==
    /\ procs[p].pc = "alloc"
    /\ procs'[p].pc # "alloc"
    /\ procs[p].entries >= gc_thresh3

\* A linked entry that only the table references and that is not PERMANENT.
Spare(e) == Linked(e) /\ nb[e].refcnt = 1 /\ nb[e].nud_state # NUD_PERMANENT

\* neigh_create of thread p has just returned -ENOBUFS: nothing was linked
\* and the count is what it was before the call.
CreateRefused(p) ==
    /\ procs'[p].pc = "idle"
    /\ hist'.op = "neigh_create" /\ hist'.res = ENOBUFS
    /\ \A e \in Ents : Linked(e)' => Linked(e)
    /\ \A i \in DOMAIN hash_buckets :
           SeqToSet(hash_buckets'[i]) \subseteq SeqToSet(hash_buckets[i])
    /\ tbl_entries' = tbl_entries - 1 - Destroyed(nb')

C15_ProxyQueueWithinQlen == Len(proxy_queue) <= proxy_qlen

\* The requests of a queue, and the requests handed to proxy_redo.
Waiting(q) == {q[i].skb : i \in DOMAIN q}
Redone(r) == {r[i][1] : i \in DOMAIN r}

\* pneigh_enqueue has just accepted request nextf.
Accepted ==
    /\ nextf' = nextf + 1
    /\ Len(proxy_queue') = Len(proxy_queue) + 1

\* The proxy timer expires and its handler runs.
ProxyFires ==
    /\ proxy_timer.pending
    /\ time_before_eq(proxy_timer.expires, now)
    /\ nextf' = nextf /\ now' = now
    /\ netif_running' = netif_running
    /\ hist' = NoHist

\* The one proxy timer is pending while a request waits, and set no later
\* than the earliest deadline; no request is handed to proxy_redo twice, and
\* none that is still waiting has been handed over.
ProxyTimerCovers ==
    /\ proxy_queue # <<>> =>
          /\ proxy_timer.pending
          /\ \A i \in DOMAIN proxy_queue :
                time_before_eq(proxy_timer.expires, proxy_queue[i].sched_next)
    /\ \A i, j \in DOMAIN proxy_redone :
          proxy_redone[i][1] = proxy_redone[j][1] => i = j
    /\ Waiting(proxy_queue) \cap Redone(proxy_redone) = {}

\* C16 (as stated): a request accepted at t gets a deadline before
\* t + proxy_delay and, unless an interface-down purges it, is handed to
\* proxy_redo exactly once, at the first expiry of the proxy timer at or
\* after its deadline; while the queue is not empty the one proxy timer is
\* pending and set no later than the earliest deadline.
C16_EveryRequestRedone ==
    [][/\ Accepted =>
            /\ proxy_queue'[Len(proxy_queue')].skb = nextf
            /\ time_before_eq(now, proxy_queue'[Len(proxy_queue')].sched_next)
            /\ time_before(proxy_queue'[Len(proxy_queue')].sched_next, now + proxy_delay)
       /\ ProxyFires =>
            \A i \in DOMAIN proxy_queue :
               IF time_before_eq(proxy_queue[i].sched_next, now)
               THEN /\ proxy_queue[i].skb \notin Waiting(proxy_queue')
                    /\ \E k \in DOMAIN proxy_redone' :
                          /\ k > Len(proxy_redone)
                          /\ proxy_redone'[k] = <<proxy_queue[i].skb, now>>
               ELSE /\ proxy_queue[i].skb \in Waiting(proxy_queue')
                    /\ proxy_queue[i].skb \notin Redone(proxy_redone')
       /\ ProxyTimerCovers /\ ProxyTimerCovers']_vars

\* C16 (amended): the request is handed to proxy_redo if its device is still
\* running at that expiry, and freed there if it is not.
C16_EveryRequestRedoneOrFreed ==
    [][/\ Accepted =>
            /\ proxy_queue'[Len(proxy_queue')].skb = nextf
            /\ time_before_eq(now, proxy_queue'[Len(proxy_queue')].sched_next)
            /\ time_before(proxy_queue'[Len(proxy_queue')].sched_next, now + proxy_delay)
       /\ ProxyFires =>
            \A i \in DOMAIN proxy_queue :
               IF time_before_eq(proxy_queue[i].sched_next, now)
               THEN /\ proxy_queue[i].skb \notin Waiting(proxy_queue')
                    /\ IF netif_running[proxy_queue[i].dev]
                       THEN /\ \E k \in DOMAIN proxy_redone' :
                                  /\ k > Len(proxy_redone)
                                  /\ proxy_redone'[k] = <<proxy_queue[i].skb, now>>
                            /\ proxy_queue[i].skb \notin freed'
                       ELSE /\ proxy_queue[i].skb \in freed'
                            /\ proxy_queue[i].skb \notin Redone(proxy_redone')
               ELSE /\ proxy_queue[i].skb \in Waiting(proxy_queue')
                    /\ proxy_queue[i].skb \notin Redone(proxy_redone')
       /\ ProxyTimerCovers /\ ProxyTimerCovers']_vars

\* The proxy timer has just handed one request to proxy_redo, freed one whose
\* device had stopped, and is armed for one that still waits.
C16_Witness ==
    /\ \E k \in DOMAIN proxy_redone : proxy_redone[k][2] = now
    /\ proxy_queue # <<>>
    /\ proxy_timer.pending /\ time_after(proxy_timer.expires, now)
    /\ \E d \in Devs : ~netif_running[d]
    /\ freed # {}

\* ======================================================================
\* Claims on confirmations against the timer (specification SpecConfirm)
\* ======================================================================

\* The handler of an expired timer takes the lock on entry e and decides.
HandlerDecides(e) ==
    /\ tctx[e].pc = "fired"
    /\ tctx'[e].pc # "fired"

\* The probe budget of a state.
Budget(s) ==
    IF s = NUD_PROBE THEN ucast_probes ELSE ucast_probes + app_probes + mcast_probes

\* C17: once neigh_confirm has stamped a REACHABLE entry at T, no timer
\* firing before T + reachable_time moves it out of REACHABLE; and a timer
\* firing on an INCOMPLETE or PROBE entry makes it FAILED only when its probe
\* counter has reached the budget.
C17_ConfirmedStaysReachable ==
    [][\A e \in Ents :
          /\ (HandlerDecides(e) /\ nb[e].nud_state = NUD_REACHABLE
                /\ time_before(now, nb[e].confirmed + reachable_time))
             => nb'[e].nud_state = NUD_REACHABLE
          /\ (HandlerDecides(e) /\ nb[e].nud_state \in {NUD_INCOMPLETE, NUD_PROBE}
                /\ nb'[e].nud_state = NUD_FAILED)
             => nb[e].probes >= Budget(nb[e].nud_state)
          /\ (HandlerDecides(e) /\ nb[e].nud_state \in {NUD_REACHABLE, NUD_DELAY})
             => nb'[e].nud_state # NUD_FAILED]_vars

\* A REACHABLE entry confirmed after it became REACHABLE, whose first timer
\* has fired and found the confirmation young enough.
C17_Witness ==
    \E e \in Ents :
        /\ nb[e].alive /\ nb[e].nud_state = NUD_REACHABLE
        /\ tctx[e].pc = "idle"
        /\ time_after(nb[e].confirmed, nb[e].updated)
        /\ time_before_eq(nb[e].updated + reachable_time, now)
        /\ time_before(now, nb[e].confirmed + reachable_time)
        /\ nb[e].timer_pending
        /\ time_after(nb[e].timer_expires, now)

\* ======================================================================
\* Claims on a failed resolution (specification SpecProbe)
\* ======================================================================

\* C18 (as stated): a frame sent through the resolve path of a FAILED entry
\* is freed and handed to error_report; it is not queued and no resolution
\* starts: the entry stays FAILED with no timer.
C18_UseOnFailedReports ==
    [][\A e \in Ents :
          UseIn(e, NUD_FAILED)
          => /\ nextf \in freed' \/ nextf \in SeqToSet(reported')
             /\ nextf \notin SeqToSet(nb'[e].arp_queue)
             /\ nb'[e].nud_state = NUD_FAILED
             /\ ~nb'[e].timer_pending]_vars

\* C18 (amended): a frame sent through the resolve path of a FAILED entry
\* (mcast_probes + app_probes > 0) starts a new resolution: the entry goes to
\* INCOMPLETE with the probe counter at ucast_probes and the timer armed one
\* jiffy ahead, and the frame is queued, neither freed nor reported.
C18_UseOnFailedResolvesAgain ==
    [][\A e \in Ents :
          UseIn(e, NUD_FAILED)
          => /\ nb'[e].nud_state = NUD_INCOMPLETE
             /\ nb'[e].probes = ucast_probes
             /\ nb'[e].timer_pending
             /\ nb'[e].timer_expires = now + 1
             /\ nb'[e].arp_queue # <<>>
             /\ nb'[e].arp_queue[Len(nb'[e].arp_queue)] = nextf
             /\ nextf \notin freed'
             /\ reported' = reported
             /\ xmit' = xmit]_vars

\* An entry whose resolution has failed once and has just been started again
\* by the frame at the tail of its queue.
C18_Witness ==
    \E e \in Ents :
        /\ nb[e].alive /\ nb[e].nud_state = NUD_INCOMPLETE
        /\ stats.res_failed >= 1
        /\ nb[e].probes = ucast_probes
        /\ nb[e].updated = now
        /\ nb[e].timer_pending /\ nb[e].timer_expires = now + 1
        /\ nb[e].arp_queue # <<>>
        /\ nb[e].arp_queue[Len(nb[e].arp_queue)] = nextf - 1

\* ======================================================================
\* Claims on interface-down (specification SpecDown)
\* ======================================================================

\* neigh_ifdown or neigh_changeaddr returns.
FlushReturns == hist'.op \in {"neigh_ifdown", "neigh_changeaddr"}

TransmitOnFlushed(e) ==
    /\ Held(e) /\ nb[e].dead
    /\ nextf' = nextf + 1
    /\ hist'.op \in {"output", "neigh_hh_output"} /\ hist'.e = e

\* C20: after interface-down, every transmit attempt through a held entry of
\* the device drops the frame and returns ENETDOWN, through the output
\* pointer of the entry and through the output pointer of a cached header.
C20_DownDropsEveryFrame ==
    [][/\ \A e \in Ents :
             TransmitOnFlushed(e)
             => /\ nextf \in freed'
                /\ xmit' = xmit
                /\ hist'.res = ENETDOWN
       /\ (nextf' = nextf + 1 /\ \A e \in Ents : Held(e) => nb[e].dead)
             => xmit' = xmit]_vars

\* ======================================================================
\* Claims on neigh_update without ADMIN (specification Spec)
\* ======================================================================

\* What a caller and the rest of the system can see of entry e.
Untouched(e) ==
    /\ nb'[e] = nb[e]
    /\ UNCHANGED <<xmit, reported, freed, solicits, stats, tctx, uctx, hash_buckets,
                   tbl_entries>>

\* C21: neigh_update without NEIGH_UPDATE_F_ADMIN on an entry in PERMANENT or
\* NOARP returns EPERM and leaves the entry as it was (state, address,
\* timestamps, timer, queue, output, reference count), whatever the requested
\* state and address.
C21_PermanentNeedsAdmin ==
    [][\A e \in Ents :
          (nb[e].nud_state \in {NUD_PERMANENT, NUD_NOARP} /\ nops' # nops)
          => \A lladdr \in {NULL} \cup Addrs, new \in NudStates,
                flags \in SUBSET {F_OVERRIDE, F_WEAK_OVERRIDE} :
                UpdateStart(e, lladdr, new, flags, "neigh_update")
                => (hist'.op = "neigh_update" /\ hist'.e = e /\ hist'.res = EPERM
                    /\ Untouched(e))]_vars

\* An update has just been refused on a NOARP entry that was asked to become
\* REACHABLE.
C21_Witness ==
    /\ hist.op = "neigh_update" /\ hist.res = EPERM /\ hist.arg = NUD_REACHABLE
    /\ hist.e # NULL
    /\ nb[hist.e].nud_state = NUD_NOARP

\* ======================================================================
\* Claims on the life of an entry (specification SpecLife)
\* ======================================================================

\* The references to entry e that somebody holds in the state m of the
\* system: the table's for an entry in a chain, the pending timer's, the
\* users', that of a timer handler that has started, that of an update that
\* looked the entry up, that of a neigh_create that has not yet linked it.
HeldBy(e, chains, m, users, th, up, pr) ==
    (IF e \in chains THEN 1 ELSE 0)
    + (IF m[e].timer_pending THEN 1 ELSE 0)
    + users[e]
    + (IF th[e].pc # "idle" THEN 1 ELSE 0)
    + (IF up[e].pc # "idle" THEN 1 ELSE 0)
    + Cardinality({p \in Procs : pr[p].pc = "link" /\ pr[p].n = e})

ChainsOf(buckets) == UNION {SeqToSet(buckets[i]) : i \in DOMAIN buckets}

\* C22: a step that frees an entry leaves it in no chain and with no
\* reference held by anybody (users, timer, handlers in progress); an entry
\* in a chain is allocated, is not dead and has a positive reference count;
\* an allocated entry never has a count of zero (neigh_destroy never meets an
\* entry that is not dead).
C22_FreedOnlyUnreferenced ==
    [][\A e \in Ents :
          /\ (nb[e].alive /\ ~nb'[e].alive)
               => /\ HeldBy(e, ChainsOf(hash_buckets'), nb', ext', tctx', uctx', procs') = 0
                  /\ (nb[e].dead \/ e \in ChainsOf(hash_buckets))
          /\ e \in ChainsOf(hash_buckets')
               => (nb'[e].alive /\ ~nb'[e].dead /\ nb'[e].refcnt >= 1)
          /\ nb'[e].alive => nb'[e].refcnt >= 1]_vars

\* The first entry has been freed; the second one has been taken out of the
\* table while a user and a started timer handler still refer to it, and is
\* still allocated.
C22_Witness ==
    /\ ~nb[1].alive /\ ext[1] = 0
    /\ nb[2].alive /\ nb[2].dead /\ 2 \notin ChainsOf(hash_buckets)
    /\ ext[2] > 0 /\ tctx[2].pc # "idle"

\* ======================================================================
\* Claims on the references of the timer (specification Spec)
\* ======================================================================

\* No timer handler, update or neigh_create is at work on entry e.
QuiescentEntry(e) ==
    /\ tctx[e].pc = "idle"
    /\ uctx[e].pc = "idle"
    /\ \A p \in Procs : ~(procs[p].pc = "link" /\ procs[p].n = e)

\* C23: the reference count of an allocated entry is the number of references
\* held: one for the table while the entry is in a chain, one for a pending
\* timer, one per user, one for a timer handler that has started and not yet
\* released the reference of the timer that fired, one for an update in
\* progress; at a quiescent point that is linked + pending + users.  A freed
\* entry has no pending timer, no handler and no user.
C23_RefcountIsHolders ==
    \A e \in Ents :
        /\ nb[e].alive
             => /\ nb[e].refcnt = HeldBy(e, ChainsOf(hash_buckets), nb, ext, tctx, uctx, procs)
                /\ QuiescentEntry(e)
                     => nb[e].refcnt = (IF e \in ChainsOf(hash_buckets) THEN 1 ELSE 0)
                                       + (IF nb[e].timer_pending THEN 1 ELSE 0) + ext[e]
        /\ ~nb[e].alive => (~nb[e].timer_pending /\ tctx[e].pc = "idle" /\ ext[e] = 0)

\* ======================================================================
\* Claims on the output pointers (specification SpecNud)
\* ======================================================================

\* The entry's output pointer and that of its cached header, if it has one,
\* are the fast ones of its operation table.
FastPath(n) ==
    /\ n.output = ops_connected_output(n.ops)
    /\ n.hh => n.hh_output = ops_hh_output(n.ops)

\* They are the slow ops->output.
SlowPath(n) ==
    /\ n.output = ops_output(n.ops)
    /\ n.hh => n.hh_output = ops_output(n.ops)

\* C24 as stated: for a linked entry the state is in NUD_CONNECTED exactly
\* when the output pointers are the fast ones, and in every other state they
\* are the slow ones.
C24_ConnectedIffFastPath ==
    \A e \in Ents :
        Linked(e) =>
            /\ nb[e].nud_state \in NUD_CONNECTED <=> FastPath(nb[e])
            /\ nb[e].nud_state \notin NUD_CONNECTED => SlowPath(nb[e])

\* C24: for a linked entry, in a NUD_CONNECTED state the output pointers are
\* the fast ones and in every other state they are the slow ones; the
\* pointers tell the state apart whenever the operation table has two
\* different output functions or the entry has a cached header.
C24_OutputFollowsState ==
    \A e \in Ents :
        Linked(e) =>
            /\ nb[e].nud_state \in NUD_CONNECTED => FastPath(nb[e])
            /\ nb[e].nud_state \notin NUD_CONNECTED => SlowPath(nb[e])
            /\ (ops_connected_output(nb[e].ops) # ops_output(nb[e].ops) \/ nb[e].hh)
                 => (nb[e].nud_state \in NUD_CONNECTED <=> FastPath(nb[e]))

\* A linked entry with a cached header that has been REACHABLE, with the fast
\* pointers, and whose timer has put it back on the slow path.
C24_Witness ==
    \E e \in Ents :
        /\ Linked(e) /\ nb[e].hh /\ nb[e].nud_state \in {NUD_STALE, NUD_DELAY}
        /\ nb[e].hh_output = ops_output(nb[e].ops)
        /\ nb[e].confirmed >= 0
        /\ time_after(now, nb[e].confirmed + reachable_time)

\* ======================================================================
\* Claims on a USE against a reply (specification SpecNud)
\* ======================================================================

\* The frames the senders have submitted so far.
Submitted == 1..(nextf - 1)

\* Frame f has been transmitted, exactly once.
SentOnce(f) == Cardinality({i \in DOMAIN xmit : xmit[i][1] = f}) = 1

\* Frame f waits in the queue of an entry that is still being resolved, or is
\* in the hand of the drain of a neigh_update that is about to pass it to the
\* output function.
Waits(f) ==
    \E e \in Ents :
        \/ nb[e].alive /\ nb[e].nud_state = NUD_INCOMPLETE /\ f \in SeqToSet(nb[e].arp_queue)
        \/ uctx[e].pc # "idle" /\ nb[e].nud_state \in NUD_VALID
              /\ (f \in SeqToSet(nb[e].arp_queue) \/ (uctx[e].pc = "output" /\ uctx[e].skb = f))

\* Every frame submitted is either transmitted once or waits, never both, and
\* none has been freed or reported; a queue on a VALID entry is one that a
\* drain is emptying.
FramesSafe ==
    /\ \A f \in Submitted : (SentOnce(f) /\ ~Waits(f)) \/ (Waits(f) /\ \A i \in DOMAIN xmit : xmit[i][1] # f)
    /\ freed = {} /\ reported = <<>>
    /\ \A e \in Ents : (nb[e].alive /\ nb[e].nud_state \in NUD_VALID /\ nb[e].arp_queue # <<>>)
                           => uctx[e].pc # "idle"

\* C25: the step of a USE on a NONE entry leaves the entry INCOMPLETE with the
\* frame in its queue and the timer armed, and emits no solicitation (the
\* first one comes from the timer); and under every interleaving of senders,
\* replies and requests received and the timer, every frame submitted is
\* transmitted exactly once, by the sender's own path or by the drain of a
\* neigh_update, or still waits on an INCOMPLETE entry or in a drain in
\* progress: no frame is left queued on a VALID entry.
C25_FrameQueuedBeforeSolicit ==
    [][/\ \A e \in Ents :
             (nb[e].nud_state = NUD_NONE /\ Output(e))
             => /\ nb'[e].nud_state = NUD_INCOMPLETE
                /\ nb'[e].arp_queue = <<nextf>>
                /\ nb'[e].timer_pending /\ time_after(nb'[e].timer_expires, now)
                /\ solicits' = solicits /\ xmit' = xmit
       /\ FramesSafe']_vars

\* A reply is draining the queue, with the first frame in its hand, and a
\* sender's second frame has gone out on the sender's own path meanwhile.
C25_Witness ==
    \E e \in Ents :
        /\ uctx[e].pc = "output" /\ uctx[e].skb = 1 /\ uctx[e].caller = "arp_process"
        /\ Len(xmit) = 1 /\ xmit[1][1] = 2
        /\ nb[e].nud_state = NUD_REACHABLE

\* ======================================================================
\* Claims on the overflow of the proxy queue (specification SpecProxy)
\* ======================================================================

\* C26 as stated: a pneigh_enqueue that finds the queue at its limit drops the
\* request at the head, queues the new one at the tail and counts one
\* unresolved discard.
C26_ProxyOverflowDropsOldest ==
    [][\A dev \in Devs :
          (Len(proxy_queue) >= proxy_qlen /\ proxy_queue # <<>> /\ pneigh_enqueue(dev))
          => /\ Head(proxy_queue).skb \in freed'
             /\ Len(proxy_queue') = Len(proxy_queue)
             /\ proxy_queue'[Len(proxy_queue')].skb = nextf
             /\ stats'.unres_discards = stats.unres_discards + 1]_vars

\* C26: a pneigh_enqueue that finds more than proxy_qlen requests waiting
\* frees the new request and nothing else: the queue and the timer are as
\* they were, no statistic moves, and the caller is told nothing.
C26_ProxyOverflowDropsNew ==
    [][\A dev \in Devs :
          (Len(proxy_queue) > proxy_qlen /\ pneigh_enqueue(dev))
          => /\ freed' = freed \cup {nextf}
             /\ proxy_queue' = proxy_queue
             /\ proxy_timer' = proxy_timer
             /\ stats' = stats
             /\ hist' = NoHist]_vars

\* The last request received has been freed on arrival: the queue it found
\* is still there, one beyond proxy_qlen.
C26_Witness ==
    /\ Len(proxy_queue) = proxy_qlen + 1
    /\ nextf - 1 \in freed
    /\ \A i \in DOMAIN proxy_queue : proxy_queue[i].skb < nextf - 1

\* ======================================================================
\* Claims on the overflow of the queue of an entry (specification SpecQueue)
\* ======================================================================

\* A sender's frame nextf goes through __neigh_event_send on entry e, found
\* INCOMPLETE.
UseOnIncomplete(e) == nb[e].nud_state = NUD_INCOMPLETE /\ Output(e)

\* C27: a frame sent to an INCOMPLETE entry whose queue holds queue_len frames
\* frees exactly one frame, the head, goes to the tail behind the others in
\* their order, counts one unresolved discard and is not transmitted; with
\* fewer than queue_len frames queued nothing is freed, nothing is counted,
\* and the frame goes to the tail.
C27_OverflowEvictsHead ==
    [][\A e \in Ents :
          UseOnIncomplete(e)
          => /\ xmit' = xmit
             /\ Len(nb[e].arp_queue) = queue_len
                  => /\ nb[e].arp_queue # <<>>
                     /\ freed' = freed \cup {Head(nb[e].arp_queue)}
                     /\ Cardinality(freed') = Cardinality(freed) + 1
                     /\ nb'[e].arp_queue = Append(Tail(nb[e].arp_queue), nextf)
                     /\ stats'.unres_discards = stats.unres_discards + 1
             /\ Len(nb[e].arp_queue) < queue_len
                  => /\ freed' = freed
                     /\ nb'[e].arp_queue = Append(nb[e].arp_queue, nextf)
                     /\ stats'.unres_discards = stats.unres_discards]_vars

\* ======================================================================
\* Claims on the two collectors (specification SpecSweep)
\* ======================================================================

\* The step is the forced GC run by neigh_alloc in thread p.
ForcedGcStep(p) == CreateAlloc(p) /\ neigh_alloc_wants_gc(procs[p].entries, now)

\* The step takes entry e out of the chains of the table.
UnlinksEntry(e) == e \in ChainsOf(hash_buckets) /\ e \notin ChainsOf(hash_buckets')

LaterOf(a, b) == IF a > b THEN a ELSE b

\* C28: no collector unlinks an entry with more than one reference or a
\* PERMANENT entry; the forced GC unlinks every chained entry with one
\* reference that is not PERMANENT; the periodic sweep unlinks no entry in a
\* timer state, and an entry with one reference only when it is FAILED or
\* unused and unconfirmed for more than gc_staletime.
C28_CollectorsTakeOnlyIdle ==
    [][\A e \in Ents :
          /\ (\E p \in Procs : ForcedGcStep(p))
               => /\ UnlinksEntry(e) => nb[e].refcnt = 1 /\ nb[e].nud_state # NUD_PERMANENT
                  /\ (e \in ChainsOf(hash_buckets) /\ nb[e].refcnt = 1
                      /\ nb[e].nud_state # NUD_PERMANENT) => UnlinksEntry(e)
          /\ (\E i \in 0..hash_mask : neigh_periodic_work(i))
               => (UnlinksEntry(e)
                     => /\ nb[e].refcnt = 1
                        /\ nb[e].nud_state \notin {NUD_PERMANENT} \cup NUD_IN_TIMER
                        /\ \/ nb[e].nud_state = NUD_FAILED
                           \/ now > LaterOf(nb[e].used, nb[e].confirmed) + gc_staletime)]_vars

\* The only entry ever created, never used or updated and released by its
\* creator, has been collected after gc_staletime: no second creation began,
\* so the periodic sweep took it.
C28_Witness ==
    /\ ncreate = 1 /\ nops = 1
    /\ \A e \in Ents : ~nb[e].alive /\ ext[e] = 0
    /\ \A p \in Procs : procs[p].pc = "idle"
    /\ tbl_entries = 0
    /\ now > 5 * HZ + 1 + gc_staletime

\* ======================================================================
\* Claims on the failure of a resolution (specification SpecProbe)
\* ======================================================================

\* The step is the timer handler of entry e declaring the resolution failed.
TimerFails(e) ==
    /\ tctx[e].pc = "fired"
    /\ nb[e].nud_state \in {NUD_INCOMPLETE, NUD_PROBE}
    /\ neigh_timer_handler(e)
    /\ nb'[e].nud_state = NUD_FAILED

\* The step is the handler of entry e coming back from one error_report.
TimerReports(e) == tctx[e].pc = "report" /\ neigh_timer_handler(e)

\* The frames the failing handler of entry e has to account for: the queue
\* and the frame it holds for error_report.
InHand(t) == IF t.pc = "report" THEN {t.skb} ELSE {}

\* C29: a timer firing that moves an entry from INCOMPLETE or PROBE to FAILED
\* counts one failed resolution, once, and every frame queued then or
\* submitted while error_report runs leaves the queue through error_report,
\* once, none being freed; when the handler returns the queue is empty.
C29_FailureReportsEveryFrame ==
    [][\A e \in Ents :
          /\ TimerFails(e) => stats'.res_failed = stats.res_failed + 1
          /\ TimerReports(e) => stats'.res_failed = stats.res_failed
          /\ (TimerFails(e) \/ TimerReports(e))
               => /\ freed' = freed
                  /\ SeqToSet(nb[e].arp_queue) \cup InHand(tctx[e]) \cup SeqToSet(reported)
                       = SeqToSet(nb'[e].arp_queue) \cup InHand(tctx'[e]) \cup SeqToSet(reported')
                  /\ Len(reported') = Cardinality(SeqToSet(reported'))
                  /\ tctx'[e].pc = "idle" => nb'[e].arp_queue = <<>>]_vars

\* ======================================================================
\* Claims on the timer of a REACHABLE entry (specification SpecNud)
\* ======================================================================

\* The step is the timer handler of entry e taking the lock and finding the
\* entry REACHABLE.
TimerOnReachable(e) ==
    /\ tctx[e].pc = "fired"
    /\ nb[e].nud_state = NUD_REACHABLE
    /\ neigh_timer_handler(e)

StillConfirmed(n) == now <= n.confirmed + reachable_time
StillUsed(n) == ~StillConfirmed(n) /\ now <= n.used + delay_probe_time

\* A REACHABLE entry past its confirmation but used within delay_probe_time
\* becomes DELAY, its timer set delay_probe_time ahead, its output the slow one.
DelayedByTimer(e) ==
    /\ nb'[e].nud_state = NUD_DELAY
    /\ nb'[e].timer_pending /\ nb'[e].timer_expires = now + delay_probe_time
    /\ SlowPath(nb'[e])

\* C30 as stated: the timer of a REACHABLE entry confirmed within
\* reachable_time leaves it REACHABLE and is set again to confirmed +
\* reachable_time; otherwise, used within delay_probe_time, the entry becomes
\* DELAY with the timer at now + delay_probe_time and the slow output.
C30_ReachableTimerAtConfirmed ==
    [][\A e \in Ents :
          TimerOnReachable(e)
          => /\ StillConfirmed(nb[e])
                  => /\ nb'[e].nud_state = NUD_REACHABLE
                     /\ nb'[e].timer_pending
                     /\ nb'[e].timer_expires = nb[e].confirmed + reachable_time
             /\ StillUsed(nb[e]) => DelayedByTimer(e)]_vars

\* C30: the same, the timer of the entry left REACHABLE being set to
\* confirmed + reachable_time or to now + HZ/2, whichever is later, and the
\* entry left as it was otherwise.
C30_ReachableTimerRearmed ==
    [][\A e \in Ents :
          TimerOnReachable(e)
          => /\ StillConfirmed(nb[e])
                  => /\ nb'[e].nud_state = NUD_REACHABLE
                     /\ nb'[e].timer_pending
                     /\ nb'[e].timer_expires
                          = LaterOf(nb[e].confirmed + reachable_time, now + HZ \div 2)
                     /\ nb'[e].output = nb[e].output
                     /\ nb'[e].updated = nb[e].updated
             /\ StillUsed(nb[e]) => DelayedByTimer(e)]_vars

\* The timer has fired at confirmed + reachable_time and left the entry
\* REACHABLE, set again HZ/2 ahead.
C30_Witness ==
    \E e \in Ents :
        /\ Linked(e) /\ nb[e].nud_state = NUD_REACHABLE
        /\ tctx[e].pc = "idle"
        /\ now = nb[e].confirmed + reachable_time
        /\ nb[e].timer_pending /\ nb[e].timer_expires = now + HZ \div 2

\* ======================================================================
\* Claims on the timer of a DELAY entry (specification SpecNud)
\* ======================================================================

\* The step is the timer handler of entry e taking the lock and finding the
\* entry in DELAY.
TimerOnDelay(e) ==
    /\ tctx[e].pc = "fired"
    /\ nb[e].nud_state = NUD_DELAY
    /\ neigh_timer_handler(e)

ConfirmedInDelay(n) == now <= n.confirmed + delay_probe_time

\* The number of solicitations the step emits.
Solicited == Len(solicits') - Len(solicits)

\* A DELAY entry without confirmation becomes PROBE, its probe counter
\* counting from zero the solicitation the handler emits, its timer set
\* retrans_time ahead.
ProbedByTimer(e) ==
    /\ nb'[e].nud_state = NUD_PROBE
    /\ nb'[e].probes = Solicited
    /\ nb'[e].timer_pending /\ nb'[e].timer_expires = now + retrans_time

\* C31 as stated: the timer of a DELAY entry confirmed within
\* delay_probe_time makes it REACHABLE with the fast output and is set to
\* confirmed + reachable_time; otherwise the entry becomes PROBE, the probe
\* counter starting from 0, the timer at now + retrans_time.
C31_DelayTimerAtConfirmed ==
    [][\A e \in Ents :
          TimerOnDelay(e)
          => /\ ConfirmedInDelay(nb[e])
                  => /\ nb'[e].nud_state = NUD_REACHABLE
                     /\ FastPath(nb'[e])
                     /\ nb'[e].timer_pending
                     /\ nb'[e].timer_expires = nb[e].confirmed + reachable_time
             /\ ~ConfirmedInDelay(nb[e]) => ProbedByTimer(e)]_vars

\* C31: the same, the timer of the entry made REACHABLE being set to
\* confirmed + reachable_time or to now + HZ/2, whichever is later, and no
\* solicitation being emitted for it; the entry made PROBE emits one.
C31_DelayTimerRearmed ==
    [][\A e \in Ents :
          TimerOnDelay(e)
          => /\ ConfirmedInDelay(nb[e])
                  => /\ nb'[e].nud_state = NUD_REACHABLE
                     /\ FastPath(nb'[e])
                     /\ nb'[e].timer_pending
                     /\ nb'[e].timer_expires
                          = LaterOf(nb[e].confirmed + reachable_time, now + HZ \div 2)
                     /\ Solicited = 0
             /\ ~ConfirmedInDelay(nb[e]) => ProbedByTimer(e) /\ Solicited = 1]_vars

\* The timer of an entry in DELAY, confirmed delay_probe_time ago, has fired
\* and made it REACHABLE, set again HZ/2 ahead.
C31_Witness ==
    \E e \in Ents :
        /\ Linked(e) /\ nb[e].nud_state = NUD_REACHABLE
        /\ tctx[e].pc = "idle"
        /\ nb[e].updated = now
        /\ now = nb[e].confirmed + delay_probe_time
        /\ nb[e].confirmed + reachable_time < now + HZ \div 2
        /\ nb[e].timer_pending /\ nb[e].timer_expires = now + HZ \div 2

\* ======================================================================
\* Claims on the probes of a PROBE entry (specification SpecConfirm)
\* ======================================================================

\* The solicitations emitted at time t or later.
SolicitsSince(t) == Cardinality({i \in DOMAIN solicits : solicits[i] >= t})

\* C32: the firing that moves a DELAY entry to PROBE emits the first unicast
\* solicitation; every later firing on the PROBE entry emits exactly one more
\* while fewer than ucast_probes have been emitted, and the firing after the
\* last one finds exactly ucast_probes emitted since the entry became PROBE
\* and makes it FAILED without emitting any; an INCOMPLETE entry fails exactly
\* when its probe counter has reached ucast_probes + app_probes + mcast_probes.
C32_ProbeBudgetIsUnicast ==
    [][\A e \in Ents :
          HandlerDecides(e)
          => /\ (nb[e].nud_state = NUD_DELAY /\ nb'[e].nud_state = NUD_PROBE)
                  => nb'[e].probes = 1 /\ Solicited = 1
             /\ nb[e].nud_state = NUD_PROBE
                  => /\ nb[e].probes = SolicitsSince(nb[e].updated)
                     /\ nb[e].probes \in 1..ucast_probes
                     /\ nb[e].probes < ucast_probes
                          => /\ nb'[e].nud_state = NUD_PROBE
                             /\ Solicited = 1
                             /\ nb'[e].probes = nb[e].probes + 1
                             /\ nb'[e].timer_pending
                             /\ nb'[e].timer_expires = now + retrans_time
                     /\ nb[e].probes = ucast_probes
                          => /\ nb'[e].nud_state = NUD_FAILED
                             /\ Solicited = 0
                             /\ ~nb'[e].timer_pending
             /\ nb[e].nud_state = NUD_INCOMPLETE
                  => (nb'[e].nud_state = NUD_FAILED
                        <=> nb[e].probes >= ucast_probes + app_probes + mcast_probes)]_vars

\* An entry that went through PROBE and failed after exactly ucast_probes
\* solicitations, the only ones ever emitted.
C32_Witness ==
    \E e \in Ents :
        /\ Linked(e) /\ nb[e].nud_state = NUD_FAILED
        /\ tctx[e].pc = "idle"
        /\ nb[e].probes = ucast_probes
        /\ Len(solicits) = ucast_probes
        /\ Spaced(solicits, retrans_time)

\* ======================================================================
\* Claims on the packets ARP receives (specification SpecArp)
\* ======================================================================

\* The state the step asks neigh_update to give entry e: recorded when the
\* update returns, or kept by the update while it drains the queue.
RequestedState(e) ==
    IF uctx[e].pc = "idle" /\ uctx'[e].pc # "idle" THEN uctx'[e].arg
    ELSE IF hist'.e = e /\ hist'.op \in {"arp_process", "neigh_event_ns"} THEN hist'.arg
    ELSE "none"

\* The table and its entries are as they were.
CacheUnchanged == nb' = nb /\ hash_buckets' = hash_buckets /\ tbl_entries' = tbl_entries

\* The entry the table holds for address sip on device 1, NULL if none.
EntryFor(sip) == neigh_lookup_find(sip, 1)

\* What every packet does whatever the policy: a unicast reply asks for
\* REACHABLE, a reply without ARP_ACCEPT creates nothing, a packet from
\* address zero changes nothing.
ArpCommon(sip, op, host, accept) ==
    /\ (sip # 0 /\ EntryFor(sip) # NULL /\ op = "REPLY" /\ host)
          => RequestedState(EntryFor(sip)) = NUD_REACHABLE
    /\ (sip # 0 /\ EntryFor(sip) = NULL /\ op = "REPLY" /\ ~accept) => CacheUnchanged
    /\ sip = 0 => CacheUnchanged

\* The entry made for sip by the step: linked, STALE, with the sender's
\* address, held by the table alone.
CreatedStale(sip, sha) ==
    /\ EntryFor(sip)' # NULL
    /\ \A n \in Ents :
          n = EntryFor(sip)'
          => /\ nb'[n].alive /\ ~nb'[n].dead /\ nb'[n].key = sip
             /\ nb'[n].nud_state = NUD_STALE /\ nb'[n].ha = sha
             /\ nb'[n].refcnt = 1 /\ ~nb'[n].timer_pending

C34_NoarpStaysNoarp ==
    [][\A e \in Ents :
          (Linked(e) /\ nb[e].nud_state = NUD_NOARP /\ nb'[e].alive /\ ~nb'[e].dead)
          => /\ nb'[e].nud_state = NUD_NOARP
             /\ ~nb'[e].timer_pending /\ tctx'[e].pc = "idle"
             /\ nb'[e].arp_queue = <<>>
             /\ nb'[e].ha = nb[e].ha
             /\ nb'[e].output = nb[e].output
             /\ solicits' = <<>>
             /\ freed' = {}]_vars

\* A NOARP entry has transmitted a frame and then refused the address a
\* packet offered.
C34_Witness ==
    \E e \in Ents :
        /\ Linked(e) /\ nb[e].nud_state = NUD_NOARP
        /\ now > 0
        /\ xmit # <<>>
        /\ hist.op \in {"arp_process", "neigh_event_ns"} /\ hist.e = e /\ hist.res = EPERM

\* ======================================================================
\* Claims on the locks held at the callbacks (specification SpecSweep)
\* ======================================================================

\* C35: no callback is made while tbl->lock is held, and solicit,
\* error_report and the output of the entry are made with the lock of the
\* entry released.
C35_NoCallbackUnderLock ==
    \A c \in callbacks :
        /\ ~c.tbl_lock
        /\ c.cb \in {"solicit", "error_report", "output"} => ~c.neigh_lock

\* ======================================================================
\* Claims on the queue at rest (specification Spec)
\* ======================================================================

\* C36: whenever no handler and no neigh_update is at work on a linked entry,
\* an entry with frames in its queue is INCOMPLETE and its timer is pending.
C36_QueuedMeansTimer ==
    \A e \in Ents :
        (Linked(e) /\ tctx[e].pc = "idle" /\ uctx[e].pc = "idle" /\ nb[e].arp_queue # <<>>)
            => (nb[e].nud_state = NUD_INCOMPLETE /\ nb[e].timer_pending)

\* ======================================================================
\* Claims on the end of a resolution (specification SpecFair)
\* ======================================================================

\* C37: a linked entry in INCOMPLETE, DELAY or PROBE eventually leaves that
\* state, whatever operation put it there.
C37_ResolutionEnds ==
    \A e \in Ents : \A s \in {NUD_INCOMPLETE, NUD_DELAY, NUD_PROBE} :
        (Linked(e) /\ nb[e].nud_state = s) ~> ~(Linked(e) /\ nb[e].nud_state = s)

\* ======================================================================
\* Claims on an entry flushed under its holder (specification SpecStray)
\* ======================================================================

\* C38: no step on an entry that neigh_flush_dev has marked dead while
\* somebody held it arms its timer, gives it an output other than the black
\* hole, or queues a frame on it.
C38_FlushedStaysInert ==
    [][\A e \in Ents :
          (Held(e) /\ nb[e].dead /\ nb'[e].alive)
          => /\ ~nb'[e].timer_pending
             /\ nb'[e].output = "neigh_blackhole"
             /\ nb'[e].arp_queue = <<>>]_vars

\* ======================================================================
\* Claims on a refused address (specification SpecNud)
\* ======================================================================

\* C39: a packet that offers a valid entry another address while the entry
\* is locked (no OVERRIDE) leaves the entry as it was, timestamps included.
C39_RefusedUpdateChangesNothing ==
    [][\A e \in Ents, sha \in Addrs, reply \in BOOLEAN :
          (/\ nb[e].nud_state \in NUD_VALID
           /\ sha # nb[e].ha
           /\ ~time_after(now, nb[e].updated + locktime)
           /\ arp_process(e, sha, reply))
          => nb'[e] = nb[e]]_vars

\* ======================================================================
\* Claims on what an interface-down leaves alone (specification SpecProxy)
\* ======================================================================

\* The requests of the proxy queue q that were received on another device.
FromOthers(q, dev) == SelectSeq(q, LAMBDA x : x.dev # dev)

\* C40: neigh_ifdown and neigh_changeaddr for a device leave the entries of
\* the other devices linked and unchanged, and the proxy requests received on
\* other devices queued, with the proxy timer still armed for them.
C40_DownTouchesOnlyDevice ==
    [][\A dev \in Devs :
          (neigh_ifdown(dev) \/ neigh_changeaddr(dev))
          => /\ \A e \in Ents : (nb[e].alive /\ nb[e].dev # dev) => nb'[e] = nb[e]
             /\ \A i \in DOMAIN hash_buckets :
                   SelectSeq(hash_buckets'[i], LAMBDA x : nb[x].dev # dev)
                       = SelectSeq(hash_buckets[i], LAMBDA x : nb[x].dev # dev)
             /\ FromOthers(proxy_queue', dev) = FromOthers(proxy_queue, dev)
             /\ (FromOthers(proxy_queue, dev) # <<>> /\ proxy_timer.pending)
                    => proxy_timer'.pending]_vars
====
